---- MODULE Spec2Model ----
(***************************************************************************)
(* The dynamic task orchestration engine of trace-station:                 *)
(* createOrchestratedWorkflow / processTrace in                            *)
(* src/workflow/services/orchestrated.graph.workflow.ts.                   *)
(*                                                                         *)
(* One run of processTrace is modelled as a state machine.  The planner    *)
(* (orchestratorAgent.process) hands over a plan, the scheduler scans the  *)
(* task map pass after pass, runs every task whose dependencies are        *)
(* completed under the retry loop, and finally calls the synthesis step.   *)
(* The workers, the planner and the synthesis call are the environment:    *)
(* each call returns an output, returns nothing (null) or throws.          *)
(***************************************************************************)
EXTENDS Integers, Sequences, FiniteSets, TLC

\* ------------------------------------------------------------------ bounds
\* Longest plan the planner hands over.
MaxTasks == 2

\* ---------------------------------------------------------------- universe
\* The engine only compares task names, so plans are enumerated up to renaming:
\* the k-th new name of a plan is the k-th name of NameOrder.
NameOrder == <<"A", "B", "C", "D">>
TaskNames == {NameOrder[i] : i \in 1..MaxTasks}
\* A dependency may also name something that is no task of any plan.
DepNames == TaskNames \cup {"ghost"}
\* The task type the planner uses in the plans of this model.
TaskTypes == {"analysis"}
\* task.customAgent as the planner sets it; "" is the absent (falsy) value.
CustomAgentRefs == {""}

\* JavaScript's undefined.
Undefined == [undefined |-> TRUE]

Rank(name) == CHOOSE i \in 1..Len(NameOrder) : NameOrder[i] = name
Highest(S) == IF S = {} THEN 0 ELSE CHOOSE x \in S : \A y \in S : y <= x
\* Name sequences of length n, two tasks possibly carrying the same name.
NameSeqs(n) ==
    {ns \in [1..n -> TaskNames] :
        \A i \in 1..n : Rank(ns[i]) <= 1 + Highest({Rank(ns[j]) : j \in 1..(i - 1)})}
\* An OrchestrationTask without its name.
Shapes == [type : TaskTypes, dependencies : SUBSET DepNames,
           customAgent : CustomAgentRefs]
MakePlan(ns, sh) ==
    [i \in 1..Len(ns) |->
        [name |-> ns[i], type |-> sh[i].type,
         dependencies |-> sh[i].dependencies, customAgent |-> sh[i].customAgent]]
VARIABLES
    enableRetries,   \* options.enableRetries
    pc,              \* position of processTrace
    plan,            \* state.orchestration.result.plan
    taskMap,         \* the Map name -> task, as its entries in insertion order
    completedTasks,  \* the Set of completed task names
    madeProgress,    \* the flag of the current pass
    idx,             \* position of the for loop over taskMap.entries()
    retries,         \* the retry counter of the task being executed
    currentStep,     \* state.currentStep
    taskResults,     \* state.taskResults
    analysis,        \* state.analysis
    context,         \* state.context
    diagnosis,       \* state.diagnosis
    recommendation,  \* state.recommendation
    synthesis,       \* state.synthesis
    error,           \* state.error
    invoked,         \* observed: number of agent.process calls made per task name
    lastOutcome,     \* observed: what the last agent.process call did
    delays,          \* observed: the backoff delays awaited for the task being executed
    passes,          \* observed: number of passes of the while loop started
    doneAtPassStart, \* observed: completedTasks.size when the current pass started
    synthCalls,      \* observed: number of synthesis calls made
    synthOutcome,    \* observed: what the synthesis call did
    inputRef,        \* per task name, what input.context.taskResults of its
                     \* worker input refers to: the object state.taskResults
                     \* ("store"), undefined, or nothing yet ("none")
    dispatchLog,     \* observed: the tasks taken up, in order, with their pass
    customAgents,    \* the keys of options.customAgents
    progress         \* observed: the calls of reportProgress, in order

\* The other components of the repository; none is touched by the run of
\* processTrace described by the variables above.
VARIABLES
    initialTaskResults, \* two runs: per run, the object initialState.taskResults
                        \* refers to, or "undefined"
    objects,            \* two runs: the content of every result-store object
    runs,               \* two runs: per run, its position and its local state
    steps,              \* WorkflowOrchestrator: this.steps
    wf,                 \* WorkflowOrchestrator: the locals and the state of execute
    cache,              \* InMemoryLLMCache: the Map key -> {value, expiry}
    now,                \* Date.now()
    calls,              \* BaseAgent: per caller, its process call in flight
    served,             \* observed: the process calls that returned, in order
    isProcessing,        \* TraceProcessor: this.isProcessing
    currentlyProcessing, \* TraceProcessor: this.currentlyProcessing
    startCalls,          \* observed: the number of start() calls made
    initializing,        \* the start() calls awaiting sqsService.initialize()
    timers,              \* the setTimeout callbacks of poll() not yet fired
    receiving,           \* per poll callback awaiting receiveMessages, the
                         \* capacity it asked for
    inProcess            \* the processMessage calls in flight, per await

twoRuns == <<initialTaskResults, objects, runs>>
orchestrator == <<steps, wf>>
caching == <<cache, now, calls, served>>
processor == <<isProcessing, currentlyProcessing, startCalls, initializing,
               timers, receiving, inProcess>>
outside == <<twoRuns, orchestrator, caching, processor>>

\* The other components at rest.
TwoRunsIdle == initialTaskResults = <<>> /\ objects = <<>> /\ runs = <<>>
OrchestratorIdle == steps = <<>> /\ wf = <<>>
CachingIdle == cache = <<>> /\ now = 0 /\ calls = <<>> /\ served = <<>>
NoneInProcess == [simulateProcessing |-> 0, deleteMessage |-> 0,
                  deleteWithoutTraceId |-> 0]
ProcessorIdle ==
    /\ isProcessing = FALSE /\ currentlyProcessing = 0 /\ startCalls = 0
    /\ initializing = 0 /\ timers = 0 /\ receiving = <<>>
    /\ inProcess = NoneInProcess

engine == <<enableRetries, pc, plan, taskMap, completedTasks, madeProgress, idx,
            retries, currentStep, taskResults, analysis, context, diagnosis,
            recommendation, synthesis, error, invoked, lastOutcome, delays,
            passes, doneAtPassStart, synthCalls, synthOutcome, inputRef,
            dispatchLog, customAgents, progress>>

vars == <<enableRetries, pc, plan, taskMap, completedTasks, madeProgress, idx,
          retries, currentStep, taskResults, analysis, context, diagnosis,
          recommendation, synthesis, error, invoked, lastOutcome, delays,
          passes, doneAtPassStart, synthCalls, synthOutcome, inputRef,
          dispatchLog, customAgents, progress, outside>>

\* ------------------------------------------------------------ pure helpers
Min(a, b) == IF a <= b THEN a ELSE b

RECURSIVE Pow2(_)
Pow2(n) == IF n = 0 THEN 1 ELSE 2 * Pow2(n - 1)

\* const maxRetries = options.enableRetries ? 3 : 0
maxRetries == IF enableRetries THEN 3 ELSE 0

\* Variant: linear instead of exponential growth.
backoffLinear(r) == Min(1000 * r, 10000)

\* Math.min(1000 * Math.pow(2, retries - 1), 10000)
backoff(r) == Min(1000 * Pow2(r - 1), 10000)

\* Variant: one attempt more than the budget.
loopContinuesOneMore(r) == r <= maxRetries + 1

\* while (!success && retries <= maxRetries), evaluated after a throw
\* (success is false there)
loopContinues(r) == r <= maxRetries

\* Variant: the wait is not guarded.
waitAlways(r) == TRUE

\* if (retries <= maxRetries) in the catch block: wait before the retry
waitBeforeRetry(r) == r <= maxRetries

\* Variant: a dependency that names no task of the map is ignored.
dependenciesMetKnown(task, completed) ==
    \A dep \in task.dependencies :
        dep \in completed \/ ~(\E i \in 1..Len(taskMap) : taskMap[i].name = dep)

\* Variant: only a task without dependencies is ready.
dependenciesMetRoots(task, completed) == task.dependencies = {}

\* Variant: `some` in place of `every`.
dependenciesMetSome(task, completed) ==
    \/ task.dependencies = {}
    \/ \E dep \in task.dependencies : dep \in completed

\* task.dependencies.every((dep) => completedTasks.has(dep))
dependenciesMet(task, completed) ==
    \A dep \in task.dependencies : dep \in completed

\* taskMap.set(task.name, task): a new key is appended, an existing key keeps
\* its place and takes the new value.
MapSet(m, task) ==
    IF \E i \in 1..Len(m) : m[i].name = task.name
    THEN [i \in 1..Len(m) |-> IF m[i].name = task.name THEN task ELSE m[i]]
    ELSE Append(m, task)

\* for (const task of plan) taskMap.set(task.name, task)
RECURSIVE BuildTaskMap(_, _)
BuildTaskMap(p, m) ==
    IF p = <<>> THEN m ELSE BuildTaskMap(Tail(p), MapSet(m, Head(p)))

\* Array.from(taskMap.keys())
MapKeys(m) == [i \in 1..Len(m) |-> m[i].name]

\* Variant: the filter keeps the completed names.
remainingTasksInverted(m, completed) ==
    SelectSeq(MapKeys(m), LAMBDA n : n \in completed)

\* Array.from(taskMap.keys()).filter((task) => !completedTasks.has(task))
remainingTasks(m, completed) ==
    SelectSeq(MapKeys(m), LAMBDA n : n \notin completed)

\* The keys of workerAgents: the standard agents and ...options.customAgents.
workerAgents == {"analysis", "context", "diagnosis", "recommendation"} \cup customAgents

\* workerAgents[key] || workerAgents.analysis
Lookup(key) == IF key \in workerAgents THEN key ELSE "analysis"

\* Variant: task.customAgent is not looked at.
resolveAgentByType(task) == Lookup(task.type)

\* The agent chosen for a task: by customAgent for a custom task that names one,
\* by type otherwise, the analysis agent when the key is not registered.
resolveAgent(task) ==
    IF task.type = "custom" /\ task.customAgent # ""
    THEN Lookup(task.customAgent)
    ELSE Lookup(task.type)

\* if (!agent), evaluated after the agent was chosen
agentMissing(task) == resolveAgent(task) \notin workerAgents

\* What a worker returns when it succeeds: an opaque payload, here tagged with
\* the worker and the task it was produced for.
Output(agent, name) == [agent |-> agent, task |-> name]

\* The object {} of createInitialState.
EmptyMap == [n \in {} |-> Undefined]

\* Variant: nothing is stored.
StoreNothing(tr, name, result) == tr

\* Variant: the result is stored under the name of the agent that produced it.
StoreByAgent(tr, name, result) ==
    LET old == IF tr = Undefined THEN {} ELSE DOMAIN tr
    IN  [n \in old \cup {result.agent} |-> IF n = result.agent THEN result ELSE tr[n]]

\* Variant: the store is replaced by an object holding the new result alone.
StoreAfresh(tr, name, result) == [n \in {name} |-> result]

\* state.taskResults[taskName] = result, creating the object when absent
StoreResult(tr, name, result) ==
    LET old == IF tr = Undefined THEN {} ELSE DOMAIN tr
    IN  [n \in old \cup {name} |-> IF n = name THEN result ELSE tr[n]]

FailedMsg == "Failed to execute task"
CycleMsg == "Possible dependency cycle detected in tasks"
PlanMsg == "Failed to create orchestration plan"
Err(msg, tasks, r) == [msg |-> msg, tasks |-> tasks, retries |-> r]

\* Variant: the loop takes the tasks of high priority first.
HighPriority(t) == t.priority = "high"
OtherPriority(t) == t.priority # "high"
curByPriority == (SelectSeq(taskMap, HighPriority) \o SelectSeq(taskMap, OtherPriority))[idx]

\* The task the for loop is at.
cur == taskMap[idx]

\* reportProgress(stage, message): the message by its fixed part, the task it
\* names and the number it carries.
Report(stage, msg, task, n) == [stage |-> stage, msg |-> msg, task |-> task, n |-> n]
\* The reports from the start of processTrace to the planner call.
PlanningReports ==
    <<Report("orchestration", "Running dynamic orchestrated workflow", "", 0),
      Report("docs", "documentation for context retrieval", "", 0),
      Report("orchestration", "Creating orchestration plan", "", 0)>>
\* Variant: the first retry is not reported.
RetryReportsLate(r) ==
    IF r > 1 THEN <<Report(cur.type, "Retry attempt", cur.name, r)>> ELSE <<>>
\* The report at the start of an attempt: none for the first one.
RetryReports(r) ==
    IF r > 0 THEN <<Report(cur.type, "Retry attempt", cur.name, r)>> ELSE <<>>
\* The report of a completed task: the stage follows the type.
CompletionReport(task) ==
    Report(IF task.type = "context" THEN "docs" ELSE task.type,
           "Completed task", task.name, 0)
\* The report before the failure of a task is thrown.
FailureReport(r) == Report("error", FailedMsg, cur.name, r)

\* Variant: the error is thrown on to the caller.
OuterCatchRethrow(e) ==
    /\ pc' = "rejected"
    /\ UNCHANGED error

\* } catch (error) { state.error = error.message; return state; }
\* the outer catch of processTrace: whatever is thrown inside the try block
\* ends the run with the error in the returned state.
OuterCatch(e) ==
    /\ error' = e
    /\ pc' = "done"

\* Variant: the check after the for loop is missing.
noProgressUnchecked == FALSE

\* Variant: the progress flag is not looked at.
noProgressUnflagged == Cardinality(completedTasks) < Len(taskMap)

\* if (!madeProgress && completedTasks.size < taskMap.size)
noProgress == ~madeProgress /\ Cardinality(completedTasks) < Len(taskMap)

\* ------------------------------------------------------------------- Init
\* processTrace has been entered with the state of createInitialState.
EngineStart ==
    /\ pc = "planning"
    /\ plan = <<>>
    /\ taskMap = <<>>
    /\ completedTasks = {}
    /\ madeProgress = FALSE
    /\ idx = 0
    /\ retries = 0
    /\ currentStep = "orchestration"
    /\ taskResults = EmptyMap
    /\ analysis = Undefined
    /\ context = Undefined
    /\ diagnosis = Undefined
    /\ recommendation = Undefined
    /\ synthesis = Undefined
    /\ error = Undefined
    /\ invoked = [n \in TaskNames |-> 0]
    /\ lastOutcome = "none"
    /\ delays = <<>>
    /\ passes = 0
    /\ doneAtPassStart = 0
    /\ synthCalls = 0
    /\ synthOutcome = "none"
    /\ inputRef = [n \in TaskNames |-> "none"]
    /\ dispatchLog = <<>>
    /\ progress = <<>>

InitRun ==
    /\ enableRetries \in BOOLEAN
    /\ EngineStart
    /\ TwoRunsIdle /\ OrchestratorIdle /\ CachingIdle /\ ProcessorIdle

\* The single run above is not under way while another component is studied.
EngineIdle == enableRetries = FALSE /\ customAgents = {} /\ EngineStart

\* The state after createInitialState and createOrchestratedWorkflow without
\* custom agents.
Init == InitRun /\ customAgents = {}

\* ---------------------------------------------------------------- planning
\* state.orchestration = await orchestratorAgent.process({trace}); then the
\* task map and the empty completed set are built.
CreatePlan ==
    /\ pc = "planning"
    /\ \E n \in 0..MaxTasks : \E ns \in NameSeqs(n) : \E sh \in [1..n -> Shapes] :
         /\ plan' = MakePlan(ns, sh)
         /\ taskMap' = BuildTaskMap(MakePlan(ns, sh), <<>>)
    /\ currentStep' = "executing_tasks"
    /\ completedTasks' = {}
    /\ progress' = PlanningReports \o
                   <<Report("orchestration", "Plan created", "", Len(plan')),
                     Report("orchestration", "Executing tasks according to plan", "", 0)>>
    /\ pc' = "while"
    /\ UNCHANGED <<enableRetries, customAgents, madeProgress, idx, retries,
                   taskResults, analysis, context, diagnosis, recommendation,
                   synthesis, error, invoked, lastOutcome, delays, passes,
                   doneAtPassStart, synthCalls, synthOutcome, inputRef,
                   dispatchLog, outside>>

\* Variant: the planner is called a second time before the run gives up.
PlanFailsRetried ==
    /\ pc = "planning"
    /\ progress' = PlanningReports \o
                   <<Report("orchestration", "Creating orchestration plan", "", 0),
                     Report("error", "Error creating orchestration plan", "", 0)>>
    /\ OuterCatch(Err(PlanMsg, <<>>, 0))
    /\ UNCHANGED <<enableRetries, customAgents, plan, taskMap, completedTasks,
                   madeProgress, idx, retries, currentStep, taskResults,
                   analysis, context, diagnosis, recommendation, synthesis,
                   invoked, lastOutcome, delays, passes, doneAtPassStart,
                   synthCalls, synthOutcome, inputRef, dispatchLog, outside>>

\* The planner throws: "Failed to create orchestration plan" reaches the outer
\* catch, which sets state.error and returns.
PlanFails ==
    /\ pc = "planning"
    /\ progress' = Append(PlanningReports,
                          Report("error", "Error creating orchestration plan", "", 0))
    /\ OuterCatch(Err(PlanMsg, <<>>, 0))
    /\ UNCHANGED <<enableRetries, customAgents, plan, taskMap, completedTasks,
                   madeProgress, idx, retries, currentStep, taskResults,
                   analysis, context, diagnosis, recommendation, synthesis,
                   invoked, lastOutcome, delays, passes, doneAtPassStart,
                   synthCalls, synthOutcome, inputRef, dispatchLog, outside>>

\* --------------------------------------------------------------- scheduler
\* while (completedTasks.size < taskMap.size) { let madeProgress = false; ...
PassStart ==
    /\ pc = "while"
    /\ Cardinality(completedTasks) < Len(taskMap)
    /\ madeProgress' = FALSE
    /\ idx' = 1
    /\ passes' = passes + 1
    /\ doneAtPassStart' = Cardinality(completedTasks)
    /\ pc' = "for"
    /\ UNCHANGED <<enableRetries, customAgents, plan, taskMap, completedTasks,
                   retries, currentStep, taskResults, analysis, context,
                   diagnosis, recommendation, synthesis, error, invoked,
                   lastOutcome, delays, synthCalls, synthOutcome, inputRef,
                   dispatchLog, progress, outside>>

\* The while condition is false: on to the synthesis step.
LoopExit ==
    /\ pc = "while"
    /\ ~(Cardinality(completedTasks) < Len(taskMap))
    /\ progress' = Append(progress,
                          Report("synthesis", "Synthesizing results from all agents", "", 0))
    /\ currentStep' = "synthesis"
    /\ pc' = "synthesis"
    /\ UNCHANGED <<enableRetries, customAgents, plan, taskMap, completedTasks,
                   madeProgress, idx, retries, taskResults, analysis, context,
                   diagnosis, recommendation, synthesis, error, invoked,
                   lastOutcome, delays, passes, doneAtPassStart, synthCalls,
                   synthOutcome, inputRef, dispatchLog, outside>>

\* for (...) : a completed task, or one whose dependencies are not met, is
\* passed over.
Skip ==
    /\ pc = "for"
    /\ idx <= Len(taskMap)
    /\ \/ cur.name \in completedTasks
       \/ ~dependenciesMet(cur, completedTasks)
    /\ idx' = idx + 1
    /\ UNCHANGED <<enableRetries, customAgents, pc, plan, taskMap,
                   completedTasks, madeProgress, retries, currentStep,
                   taskResults, analysis, context, diagnosis, recommendation,
                   synthesis, error, invoked, lastOutcome, delays, passes,
                   doneAtPassStart, synthCalls, synthOutcome, inputRef,
                   dispatchLog, progress, outside>>

\* Variant: no results are handed to the worker.
contextTaskResultsAbsent == "undefined"

\* context: { ..., taskResults: state.taskResults, ... } of the worker input:
\* the reference held by the state at that moment.
contextTaskResults == IF taskResults = Undefined THEN "undefined" ELSE "store"

\* What can be read through such a reference when the store holds tr.
ViewOf(ref, tr) == IF ref = "store" THEN tr ELSE Undefined

\* A task whose dependencies are met is taken up: the agent is resolved, the
\* input is built (its context.taskResults is the reference state.taskResults,
\* not a copy), retries = 0 and the retry loop is entered.
Dispatch ==
    /\ pc = "for"
    /\ idx <= Len(taskMap)
    /\ cur.name \notin completedTasks
    /\ dependenciesMet(cur, completedTasks)
    /\ retries' = 0
    /\ delays' = <<>>
    /\ pc' = "attempt"
    /\ inputRef' = [inputRef EXCEPT ![cur.name] = contextTaskResults]
    /\ dispatchLog' = Append(dispatchLog, [pass |-> passes, name |-> cur.name])
    /\ progress' = progress \o
                   <<Report(cur.type, "Executing task", cur.name, 0)>> \o
                   (IF agentMissing(cur)
                    THEN <<Report("warning", "No agent found for task type", cur.name, 0)>>
                    ELSE <<>>)
    /\ UNCHANGED <<enableRetries, customAgents, plan, taskMap, completedTasks,
                   madeProgress, idx, currentStep, taskResults, analysis,
                   context, diagnosis, recommendation, synthesis, error,
                   invoked, lastOutcome, passes, doneAtPassStart, synthCalls,
                   synthOutcome, outside>>

\* The unchanged part of every step of the retry loop.
LoopFrame == UNCHANGED <<enableRetries, customAgents, plan, taskMap,
                         currentStep, synthesis, passes, doneAtPassStart,
                         synthCalls, synthOutcome, inputRef, dispatchLog,
                         outside>>

\* Variant: skip and continue, the error is kept but the scan goes on.
FailTaskContinue(r) ==
    /\ error' = Err(FailedMsg, <<cur.name>>, r)
    /\ pc' = "for"

\* Variant: the retry counter is reported one too high.
FailTaskMiscount(r) == OuterCatch(Err(FailedMsg, <<cur.name>>, r + 1))

\* The path after the retry loop when the task has no result:
\* throw new Error(`Failed to execute task: ${taskName} after ${retries} retries`),
\* caught by the outer catch, which sets state.error and returns.
FailTask(r) == OuterCatch(Err(FailedMsg, <<cur.name>>, r))

\* Variant: a field of the state that is set already is kept.
AttemptOkKeep ==
    /\ pc = "attempt"
    /\ LET result == Output(resolveAgent(cur), cur.name)
           Kept(T, old) == IF cur.type = T /\ old = Undefined THEN result ELSE old
       IN  /\ taskResults' = StoreResult(taskResults, cur.name, result)
           /\ analysis' = Kept("analysis", analysis)
           /\ context' = Kept("context", context)
           /\ diagnosis' = Kept("diagnosis", diagnosis)
           /\ recommendation' = Kept("recommendation", recommendation)
    /\ invoked' = [invoked EXCEPT ![cur.name] = @ + 1]
    /\ lastOutcome' = "ok"
    /\ completedTasks' = completedTasks \cup {cur.name}
    /\ madeProgress' = TRUE
    /\ idx' = idx + 1
    /\ pc' = "for"
    /\ progress' = Append(progress \o RetryReports(retries), CompletionReport(cur))
    /\ UNCHANGED <<retries, error, delays>>
    /\ LoopFrame

\* result = await agent.process(input) returns an output: it is stored under the
\* task name and in the field of its type, and the task is marked completed.
AttemptOk ==
    /\ pc = "attempt"
    /\ LET result == Output(resolveAgent(cur), cur.name)
       IN  /\ taskResults' = StoreResult(taskResults, cur.name, result)
           /\ analysis' = IF cur.type = "analysis" THEN result ELSE analysis
           /\ context' = IF cur.type = "context" THEN result ELSE context
           /\ diagnosis' = IF cur.type = "diagnosis" THEN result ELSE diagnosis
           /\ recommendation' =
                IF cur.type = "recommendation" THEN result ELSE recommendation
    /\ invoked' = [invoked EXCEPT ![cur.name] = @ + 1]
    /\ lastOutcome' = "ok"
    /\ completedTasks' = completedTasks \cup {cur.name}
    /\ madeProgress' = TRUE
    /\ idx' = idx + 1
    /\ pc' = "for"
    /\ progress' = Append(progress \o RetryReports(retries), CompletionReport(cur))
    /\ UNCHANGED <<retries, error, delays>>
    /\ LoopFrame

\* agent.process throws: retries++, then either the backoff wait, or the loop
\* condition at once.
AttemptThrows ==
    /\ pc = "attempt"
    /\ invoked' = [invoked EXCEPT ![cur.name] = @ + 1]
    /\ lastOutcome' = "throw"
    /\ retries' = retries + 1
    /\ IF waitBeforeRetry(retries + 1)
       THEN /\ delays' = Append(delays, backoff(retries + 1))
            /\ pc' = "backoff"
            /\ progress' = progress \o RetryReports(retries)
            /\ UNCHANGED error
       ELSE /\ UNCHANGED delays
            /\ IF loopContinues(retries + 1)
               THEN /\ pc' = "attempt"
                    /\ progress' = progress \o RetryReports(retries)
                    /\ UNCHANGED error
               ELSE /\ progress' = Append(progress \o RetryReports(retries),
                                          FailureReport(retries + 1))
                    /\ FailTask(retries + 1)
    /\ UNCHANGED <<completedTasks, madeProgress, idx, taskResults, analysis,
                   context, diagnosis, recommendation>>
    /\ LoopFrame

\* Variant: an empty output counts as a thrown attempt while retries are left.
AttemptNullRetried ==
    /\ pc = "attempt"
    /\ invoked' = [invoked EXCEPT ![cur.name] = @ + 1]
    /\ lastOutcome' = "null"
    /\ IF loopContinues(retries + 1)
       THEN /\ retries' = retries + 1
            /\ pc' = "attempt"
            /\ progress' = progress \o RetryReports(retries)
            /\ UNCHANGED error
       ELSE /\ UNCHANGED retries
            /\ progress' = Append(progress \o RetryReports(retries), FailureReport(retries))
            /\ FailTask(retries)
    /\ UNCHANGED <<completedTasks, madeProgress, idx, taskResults,
                   analysis, context, diagnosis, recommendation, delays>>
    /\ LoopFrame

\* agent.process returns null or undefined: success is set, the loop ends, and
\* `success && result` is false.
AttemptNull ==
    /\ pc = "attempt"
    /\ invoked' = [invoked EXCEPT ![cur.name] = @ + 1]
    /\ lastOutcome' = "null"
    /\ progress' = Append(progress \o RetryReports(retries), FailureReport(retries))
    /\ FailTask(retries)
    /\ UNCHANGED <<completedTasks, madeProgress, idx, retries, taskResults,
                   analysis, context, diagnosis, recommendation, delays>>
    /\ LoopFrame

\* The setTimeout of the backoff fires; the loop condition is evaluated.
BackoffDone ==
    /\ pc = "backoff"
    /\ IF loopContinues(retries)
       THEN pc' = "attempt" /\ UNCHANGED <<error, progress>>
       ELSE progress' = Append(progress, FailureReport(retries)) /\ FailTask(retries)
    /\ UNCHANGED <<completedTasks, madeProgress, idx, retries, taskResults,
                   analysis, context, diagnosis, recommendation, invoked,
                   lastOutcome, delays>>
    /\ LoopFrame

\* The for loop is through and the pass made progress (or nothing is left).
PassEnd ==
    /\ pc = "for"
    /\ idx > Len(taskMap)
    /\ ~noProgress
    /\ pc' = "while"
    /\ UNCHANGED <<enableRetries, customAgents, plan, taskMap, completedTasks,
                   madeProgress, idx, retries, currentStep, taskResults,
                   analysis, context, diagnosis, recommendation, synthesis,
                   error, invoked, lastOutcome, delays, passes,
                   doneAtPassStart, synthCalls, synthOutcome, inputRef,
                   dispatchLog, progress, outside>>

\* The for loop is through without progress while tasks remain:
\* throw new Error(`Possible dependency cycle detected in tasks: ...`).
Deadlock ==
    /\ pc = "for"
    /\ idx > Len(taskMap)
    /\ noProgress
    /\ progress' = Append(progress, Report("error", CycleMsg, "", 0))
    /\ OuterCatch(Err(CycleMsg, remainingTasks(taskMap, completedTasks), 0))
    /\ UNCHANGED <<enableRetries, customAgents, plan, taskMap, completedTasks,
                   madeProgress, idx, retries, currentStep, taskResults,
                   analysis, context, diagnosis, recommendation, synthesis,
                   invoked, lastOutcome, delays, passes, doneAtPassStart,
                   synthCalls, synthOutcome, inputRef, dispatchLog, outside>>

\* --------------------------------------------------------------- synthesis
\* Variant: the synthesis call is made whatever the results.
hasResultsAlways == TRUE

\* Variant: a context result counts as well.
hasResultsWithContext ==
    \/ analysis # Undefined
    \/ context # Undefined
    \/ diagnosis # Undefined
    \/ recommendation # Undefined

\* const hasResults = state.analysis || state.diagnosis || state.recommendation
hasResults ==
    \/ analysis # Undefined
    \/ diagnosis # Undefined
    \/ recommendation # Undefined

SynthFrame == UNCHANGED <<enableRetries, customAgents, plan, taskMap,
                          completedTasks, madeProgress, idx, retries,
                          taskResults, analysis, context, diagnosis,
                          recommendation, error, invoked, lastOutcome, delays,
                          passes, doneAtPassStart, inputRef, dispatchLog,
                          outside>>

\* state.synthesis = await orchestratorAgent.process(synthesisInput)
SynthOk ==
    /\ pc = "synthesis"
    /\ hasResults
    /\ synthCalls' = synthCalls + 1
    /\ synthesis' = Output("orchestrator", "synthesize_results")
    /\ synthOutcome' = "ok"
    /\ progress' = progress \o
                   <<Report("synthesis", "Final analysis synthesis completed", "", 0),
                     Report("complete", "Dynamic workflow complete", "", 0)>>
    /\ currentStep' = "complete"
    /\ pc' = "done"
    /\ SynthFrame

\* Variant: the synthesis call is made again after it threw.
SynthThrowsRetry ==
    /\ pc = "synthesis"
    /\ hasResults
    /\ synthCalls' = synthCalls + 1
    /\ synthOutcome' = "throw"
    /\ UNCHANGED <<pc, currentStep, synthesis, progress>>
    /\ SynthFrame

\* Variant: the error of the synthesis call reaches the outer catch.
SynthThrowsFatal ==
    /\ pc = "synthesis"
    /\ hasResults
    /\ synthCalls' = synthCalls + 1
    /\ synthOutcome' = "throw"
    /\ error' = Err("synthesis", <<>>, 0)
    /\ pc' = "done"
    /\ UNCHANGED <<currentStep, synthesis, enableRetries, customAgents, plan,
                   taskMap, completedTasks, madeProgress, idx, retries,
                   taskResults, analysis, context, diagnosis, recommendation,
                   invoked, lastOutcome, delays, passes, doneAtPassStart,
                   inputRef, dispatchLog, progress, outside>>

\* Variant: after a throw of the synthesis call the step stays "synthesis".
SynthThrowsStuck ==
    /\ pc = "synthesis"
    /\ hasResults
    /\ synthCalls' = synthCalls + 1
    /\ synthOutcome' = "throw"
    /\ progress' = progress \o
                   <<Report("error", "Error during synthesis", "", 0),
                     Report("complete", "Dynamic workflow complete", "", 0)>>
    /\ pc' = "done"
    /\ UNCHANGED <<synthesis, currentStep>>
    /\ SynthFrame

\* The synthesis call throws: the inner catch reports it and the run completes.
SynthThrows ==
    /\ pc = "synthesis"
    /\ hasResults
    /\ synthCalls' = synthCalls + 1
    /\ synthOutcome' = "throw"
    /\ progress' = progress \o
                   <<Report("error", "Error during synthesis", "", 0),
                     Report("complete", "Dynamic workflow complete", "", 0)>>
    /\ currentStep' = "complete"
    /\ pc' = "done"
    /\ UNCHANGED synthesis
    /\ SynthFrame

\* "Not enough results available for synthesis"
SynthSkip ==
    /\ pc = "synthesis"
    /\ ~hasResults
    /\ progress' = progress \o
                   <<Report("warning", "Not enough results available for synthesis", "", 0),
                     Report("complete", "Dynamic workflow complete", "", 0)>>
    /\ currentStep' = "complete"
    /\ pc' = "done"
    /\ UNCHANGED <<synthesis, synthCalls, synthOutcome>>
    /\ SynthFrame

\* ------------------------------------------------------------ specification
Next ==
    \/ CreatePlan
    \/ PlanFails
    \/ PassStart
    \/ LoopExit
    \/ Skip
    \/ Dispatch
    \/ AttemptOk
    \/ AttemptThrows
    \/ AttemptNull
    \/ BackoffDone
    \/ PassEnd
    \/ Deadlock
    \/ SynthOk
    \/ SynthThrows
    \/ SynthSkip

Spec == Init /\ [][Next]_vars

\* Every call returns or throws and every timer fires: the run keeps stepping.
FairSpec == Spec /\ WF_vars(Next)

\* ------------------------------------------- plans with tasks of every type
\* The types the engine tells apart (a field of their own for the first four),
\* and "custom" for every other type.
AllTaskTypes == {"analysis", "context", "diagnosis", "recommendation", "custom"}
\* A task of a typed plan without its name: it depends on nothing, on the
\* first task, or on something that is no task.
TypedShapes == [type : AllTaskTypes,
                dependencies : {{}, {NameOrder[1]}, {"ghost"}},
                customAgent : CustomAgentRefs]

\* The planner hands over a plan whose tasks carry pairwise different names and
\* any of the types.
CreateTypedPlan ==
    /\ pc = "planning"
    /\ \E n \in 0..MaxTasks : \E sh \in [1..n -> TypedShapes] :
         LET ns == [i \in 1..n |-> NameOrder[i]]
         IN  /\ plan' = MakePlan(ns, sh)
             /\ taskMap' = BuildTaskMap(MakePlan(ns, sh), <<>>)
    /\ currentStep' = "executing_tasks"
    /\ completedTasks' = {}
    /\ progress' = PlanningReports \o
                   <<Report("orchestration", "Plan created", "", Len(plan')),
                     Report("orchestration", "Executing tasks according to plan", "", 0)>>
    /\ pc' = "while"
    /\ UNCHANGED <<enableRetries, customAgents, madeProgress, idx, retries,
                   taskResults, analysis, context, diagnosis, recommendation,
                   synthesis, error, invoked, lastOutcome, delays, passes,
                   doneAtPassStart, synthCalls, synthOutcome, inputRef,
                   dispatchLog, outside>>

TypedNext ==
    \/ CreateTypedPlan
    \/ PlanFails
    \/ PassStart
    \/ LoopExit
    \/ Skip
    \/ Dispatch
    \/ AttemptOk
    \/ AttemptThrows
    \/ AttemptNull
    \/ BackoffDone
    \/ PassEnd
    \/ Deadlock
    \/ SynthOk
    \/ SynthThrows
    \/ SynthSkip

\* The same run, over the plans with tasks of every type.
TypedSpec == Init /\ [][TypedNext]_vars

\* ------------------------------------------------- plans and custom agents
\* The keys options.customAgents may register: one a task can name in
\* customAgent, and the type name "custom" itself.
CustomKeys == {"special", "custom"}
\* A task of these plans without its name: of a standard type, of type
\* "custom", or of a type nobody registers; naming a custom agent or not.
RegistryShapes == [type : {"analysis", "custom", "other"},
                   dependencies : {{}, {"ghost"}},
                   customAgent : {"", "special"}]

\* createOrchestratedWorkflow was called with any of the custom agents.
RegistryInit == InitRun /\ customAgents \in SUBSET CustomKeys

CreateRegistryPlan ==
    /\ pc = "planning"
    /\ \E n \in 0..MaxTasks : \E sh \in [1..n -> RegistryShapes] :
         LET ns == [i \in 1..n |-> NameOrder[i]]
         IN  /\ plan' = MakePlan(ns, sh)
             /\ taskMap' = BuildTaskMap(MakePlan(ns, sh), <<>>)
    /\ currentStep' = "executing_tasks"
    /\ completedTasks' = {}
    /\ progress' = PlanningReports \o
                   <<Report("orchestration", "Plan created", "", Len(plan')),
                     Report("orchestration", "Executing tasks according to plan", "", 0)>>
    /\ pc' = "while"
    /\ UNCHANGED <<enableRetries, customAgents, madeProgress, idx, retries,
                   taskResults, analysis, context, diagnosis, recommendation,
                   synthesis, error, invoked, lastOutcome, delays, passes,
                   doneAtPassStart, synthCalls, synthOutcome, inputRef,
                   dispatchLog, outside>>

RegistryNext ==
    \/ CreateRegistryPlan
    \/ PlanFails
    \/ PassStart
    \/ LoopExit
    \/ Skip
    \/ Dispatch
    \/ AttemptOk
    \/ AttemptThrows
    \/ AttemptNull
    \/ BackoffDone
    \/ PassEnd
    \/ Deadlock
    \/ SynthOk
    \/ SynthThrows
    \/ SynthSkip

\* The same run, with custom agents registered and plans that name them.
RegistrySpec == RegistryInit /\ [][RegistryNext]_vars

\* ------------------------------------------------ two runs of processTrace
\* Two calls of the workflow function, interleaved at their awaits.  What is
\* modelled of a run is what it shares with the other: the object its
\* state.taskResults refers to.
Run == {1, 2}
\* The objects that can serve as a taskResults record: those held by the
\* initial states (two different ones at most), and the one each run creates
\* when its state has none.
InitialObjects == {"I1", "I2"}
CreatedBy(r) == IF r = 1 THEN "N1" ELSE "N2"
Objects == InitialObjects \cup {CreatedBy(r) : r \in Run}
\* taskResults is an optional field of WorkflowState.
NoObject == "none"

\* A run before `state = {...initialState}`.
IdleRun == [pc |-> "idle", n |-> 0, i |-> 0, ref |-> NoObject,
            input |-> NoObject, completed |-> {}, failed |-> FALSE]

\* obj[name] = result of run r
Put(obj, name, r) == {e \in obj : e[1] # name} \cup {<<name, r>>}

TwoRunsInit ==
    /\ EngineIdle /\ OrchestratorIdle /\ CachingIdle /\ ProcessorIdle
    /\ initialTaskResults \in [Run -> InitialObjects \cup {NoObject}]
    /\ objects = [o \in Objects |-> {}]
    /\ runs = [r \in Run |-> IdleRun]

\* const state = {...initialState}: the copy is shallow, state.taskResults is
\* the object initialState.taskResults; then the plan of n tasks is made.
StartRun(r) ==
    /\ runs[r].pc = "idle"
    /\ \E n \in 0..MaxTasks :
         runs' = [runs EXCEPT ![r] = [@ EXCEPT !.pc = "loop", !.n = n,
                                               !.ref = initialTaskResults[r]]]
    /\ UNCHANGED <<initialTaskResults, objects, engine, orchestrator, caching, processor>>

\* input.context.taskResults = state.taskResults, and the worker is awaited.
DispatchTask(r) ==
    /\ runs[r].pc = "loop" /\ runs[r].i < runs[r].n
    /\ runs' = [runs EXCEPT ![r] = [@ EXCEPT !.pc = "worker", !.input = runs[r].ref]]
    /\ UNCHANGED <<initialTaskResults, objects, engine, orchestrator, caching, processor>>

\* if (!state.taskResults) state.taskResults = {};
\* state.taskResults[taskName] = result; completedTasks.add(taskName)
WorkerReturns(r) ==
    /\ runs[r].pc = "worker"
    /\ LET name == NameOrder[runs[r].i + 1]
           ref == IF runs[r].ref = NoObject THEN CreatedBy(r) ELSE runs[r].ref
       IN  /\ objects' = [objects EXCEPT ![ref] = Put(@, name, r)]
           /\ runs' = [runs EXCEPT ![r] =
                         [@ EXCEPT !.pc = "loop", !.ref = ref, !.i = @ + 1,
                                   !.completed = @ \cup {name}]]
    /\ UNCHANGED <<initialTaskResults, engine, orchestrator, caching, processor>>

\* The worker fails for good: the outer catch sets state.error, state returned.
WorkerFails(r) ==
    /\ runs[r].pc = "worker"
    /\ runs' = [runs EXCEPT ![r] = [@ EXCEPT !.pc = "done", !.failed = TRUE]]
    /\ UNCHANGED <<initialTaskResults, objects, engine, orchestrator, caching, processor>>

\* All tasks done: return state.
FinishRun(r) ==
    /\ runs[r].pc = "loop" /\ runs[r].i = runs[r].n
    /\ runs' = [runs EXCEPT ![r] = [@ EXCEPT !.pc = "done"]]
    /\ UNCHANGED <<initialTaskResults, objects, engine, orchestrator, caching, processor>>

TwoRunsNext ==
    \/ \E r \in Run : StartRun(r)
    \/ \E r \in Run : DispatchTask(r)
    \/ \E r \in Run : WorkerReturns(r)
    \/ \E r \in Run : WorkerFails(r)
    \/ \E r \in Run : FinishRun(r)

TwoRunsSpec == TwoRunsInit /\ [][TwoRunsNext]_vars

\* ------------------------------------------------------ plans with priority
\* A task with the optional field priority set.
PriorityShapes == [type : {"analysis"},
                   dependencies : {{}, {NameOrder[1]}, {"ghost"}},
                   customAgent : {""},
                   priority : {"high", "low"}]
MakePriorityPlan(ns, sh) ==
    [i \in 1..Len(ns) |->
        [name |-> ns[i], type |-> sh[i].type,
         dependencies |-> sh[i].dependencies, customAgent |-> sh[i].customAgent,
         priority |-> sh[i].priority]]

CreatePriorityPlan ==
    /\ pc = "planning"
    /\ \E n \in 0..MaxTasks : \E sh \in [1..n -> PriorityShapes] :
         LET ns == [i \in 1..n |-> NameOrder[i]]
         IN  /\ plan' = MakePriorityPlan(ns, sh)
             /\ taskMap' = BuildTaskMap(MakePriorityPlan(ns, sh), <<>>)
    /\ currentStep' = "executing_tasks"
    /\ completedTasks' = {}
    /\ progress' = PlanningReports \o
                   <<Report("orchestration", "Plan created", "", Len(plan')),
                     Report("orchestration", "Executing tasks according to plan", "", 0)>>
    /\ pc' = "while"
    /\ UNCHANGED <<enableRetries, customAgents, madeProgress, idx, retries,
                   taskResults, analysis, context, diagnosis, recommendation,
                   synthesis, error, invoked, lastOutcome, delays, passes,
                   doneAtPassStart, synthCalls, synthOutcome, inputRef,
                   dispatchLog, outside>>

PriorityNext ==
    \/ CreatePriorityPlan
    \/ PlanFails
    \/ PassStart
    \/ LoopExit
    \/ Skip
    \/ Dispatch
    \/ AttemptOk
    \/ AttemptThrows
    \/ AttemptNull
    \/ BackoffDone
    \/ PassEnd
    \/ Deadlock
    \/ SynthOk
    \/ SynthThrows
    \/ SynthSkip

\* The same run on plans whose tasks carry a priority.
PrioritySpec == Init /\ [][PriorityNext]_vars

\* ------------------------------------------------- a throwing progress callback
\* What options.onProgress throws.
ReportMsg == "progress callback failed"

\* The worker returns, the result is stored (line 260) and copied to the field
\* of its type, and the completion report that follows throws, in the callback
\* or in building its message: the outer catch ends the run before
\* completedTasks.add (line 296).
CompletionReportThrows ==
    /\ pc = "attempt"
    /\ LET result == Output(resolveAgent(cur), cur.name)
       IN  /\ taskResults' = StoreResult(taskResults, cur.name, result)
           /\ analysis' = IF cur.type = "analysis" THEN result ELSE analysis
           /\ context' = IF cur.type = "context" THEN result ELSE context
           /\ diagnosis' = IF cur.type = "diagnosis" THEN result ELSE diagnosis
           /\ recommendation' =
                IF cur.type = "recommendation" THEN result ELSE recommendation
    /\ invoked' = [invoked EXCEPT ![cur.name] = @ + 1]
    /\ lastOutcome' = "ok"
    /\ progress' = Append(progress \o RetryReports(retries), CompletionReport(cur))
    /\ OuterCatch(Err(ReportMsg, <<>>, 0))
    /\ UNCHANGED <<completedTasks, madeProgress, idx, retries, delays>>
    /\ LoopFrame

ReportNext ==
    \/ CreatePlan
    \/ PlanFails
    \/ PassStart
    \/ LoopExit
    \/ Skip
    \/ Dispatch
    \/ AttemptOk
    \/ CompletionReportThrows
    \/ AttemptThrows
    \/ AttemptNull
    \/ BackoffDone
    \/ PassEnd
    \/ Deadlock
    \/ SynthOk
    \/ SynthThrows
    \/ SynthSkip

\* The run with a progress callback that may throw at a completion report.
ReportSpec == Init /\ [][ReportNext]_vars

\* --------------------------------------------- BaseAgent.process and its cache
\* The process calls looked at, and the seconds that pass meanwhile.
MaxCalls == 2
MaxTime == 3
\* Formatted inputs, raw model responses (the empty response among them), and
\* the cacheTTL option of an agent in seconds (0: no expiry).
FormattedInputs == {"p", "q"}
RawResponses == {"", "r1", "r2"}
CacheTTLs == {0, 2}
Null == "null"
\* expiry: null of an item that does not expire
NoExpiry == 0
\* A call that has returned nothing.
NoResult == <<>>

\* createHash("sha256").update(input).digest("hex")
generateCacheKey(input) == <<"sha256", input>>
\* parseOutput(output) of the agent
parseOutput(raw) == <<"parsed", raw>>

\* item.expiry && item.expiry < Date.now()
Expired(item) == item.expiry # NoExpiry /\ item.expiry < now
\* InMemoryLLMCache.get: the value, or null for no item and for an expired one
CacheGet(key) ==
    IF key \notin DOMAIN cache THEN Null
    ELSE IF Expired(cache[key]) THEN Null
    ELSE cache[key].value
\* ... and an expired item is deleted by get.
CacheAfterGet(key) ==
    IF key \in DOMAIN cache /\ Expired(cache[key])
    THEN [k \in DOMAIN cache \ {key} |-> cache[k]]
    ELSE cache
\* InMemoryLLMCache.set
CacheSet(key, value, ttl) ==
    LET item == [value |-> value, expiry |-> IF ttl # 0 THEN now + ttl ELSE NoExpiry]
    IN  [k \in DOMAIN cache \cup {key} |-> IF k = key THEN item ELSE cache[k]]
\* InMemoryLLMCache.has
CacheHas(key) == key \in DOMAIN cache
\* if (cachedResult): null and the empty string are both falsy
Truthy(v) == v # Null /\ v # ""

CacheInit ==
    /\ EngineIdle /\ TwoRunsIdle /\ OrchestratorIdle /\ ProcessorIdle
    /\ cache = <<>>
    /\ now = 0
    /\ calls = <<>>
    /\ served = <<>>

\* process(input) up to the model call: the key is made, the cache is asked,
\* and on a hit the parse of the cached response is returned.
ProcessStart(input, enableCache, cacheTTL) ==
    /\ Len(calls) < MaxCalls
    /\ LET key == generateCacheKey(input)
           cached == IF enableCache THEN CacheGet(key) ELSE Null
           call == [input |-> input, key |-> key, enableCache |-> enableCache,
                    cacheTTL |-> cacheTTL, start |-> now, after |-> Len(served),
                    phase |-> "model", invoked |-> FALSE, raw |-> Null,
                    result |-> NoResult, end |-> 0]
       IN  /\ cache' = IF enableCache THEN CacheAfterGet(key) ELSE cache
           /\ IF Truthy(cached)
              THEN /\ calls' = Append(calls, [call EXCEPT !.phase = "done",
                                                          !.raw = cached,
                                                          !.result = parseOutput(cached),
                                                          !.end = now])
                   /\ served' = Append(served, Len(calls) + 1)
              ELSE /\ calls' = Append(calls, call)
                   /\ served' = served
    /\ UNCHANGED <<now, engine, twoRuns, orchestrator, processor>>

\* chain.invoke returns: the response is cached and its parse returned.
ModelReturns(i, raw) ==
    /\ i \in 1..Len(calls) /\ calls[i].phase = "model"
    /\ cache' = IF calls[i].enableCache
                THEN CacheSet(calls[i].key, raw, calls[i].cacheTTL)
                ELSE cache
    /\ calls' = [calls EXCEPT ![i] = [@ EXCEPT !.phase = "done", !.invoked = TRUE,
                                              !.raw = raw,
                                              !.result = parseOutput(raw),
                                              !.end = now]]
    /\ served' = Append(served, i)
    /\ UNCHANGED <<now, engine, twoRuns, orchestrator, processor>>

\* chain.invoke throws: process rejects, nothing is cached.
ModelThrows(i) ==
    /\ i \in 1..Len(calls) /\ calls[i].phase = "model"
    /\ calls' = [calls EXCEPT ![i] = [@ EXCEPT !.phase = "failed", !.invoked = TRUE,
                                              !.end = now]]
    /\ UNCHANGED <<cache, served, now, engine, twoRuns, orchestrator, processor>>

\* A second passes.
Tick ==
    /\ now < MaxTime
    /\ now' = now + 1
    /\ UNCHANGED <<cache, calls, served, engine, twoRuns, orchestrator, processor>>

CacheNext ==
    \/ \E input \in FormattedInputs : \E enableCache \in BOOLEAN :
         \E cacheTTL \in CacheTTLs : ProcessStart(input, enableCache, cacheTTL)
    \/ \E i \in 1..MaxCalls : \E raw \in RawResponses : ModelReturns(i, raw)
    \/ \E i \in 1..MaxCalls : ModelThrows(i)
    \/ Tick

CacheSpec == CacheInit /\ [][CacheNext]_vars

\* ------------------------------------------------- WorkflowOrchestrator.execute
\* The steps added to an orchestrator.
MaxSteps == 2
\* step.maxRetries: unset, or a number of retries.
Unset == -1
MaxRetriesValues == {Unset, 0, 1, 5}
\* A step without its name: what its condition does when called (none: the
\* step has no condition), what its inputBuilder does, and its maxRetries.
StepShapes == [condition : {"none", "true", "false", "throws"},
               inputBuilder : {"returns", "throws"},
               maxRetries : MaxRetriesValues]
\* step.name: the steps are named by their place.
StepName(i) == <<"step", i>>
\* state.currentStep as the initial state has it, and "complete".
InitialStep == <<"initial">>
CompleteStep == <<"complete">>
\* step.maxRetries || 0
maxRetriesOf(step) == IF step.maxRetries = Unset THEN 0 ELSE step.maxRetries
\* Variant: no upper limit.
stepBackoffUncapped(r) == 1000 * Pow2(r - 1)
\* Math.min(1000 * Math.pow(2, retries - 1), 10000)
stepBackoff(r) == Min(1000 * Pow2(r - 1), 10000)
\* state.error is not set
NoError == <<>>

\* An orchestrator whose execute has not been called.
IdleWorkflow ==
    [pc |-> "idle", i |-> 0, retries |-> 0, currentStep |-> InitialStep,
     error |-> NoError, thrown |-> NoError, out |-> {}, built |-> {},
     invoked |-> [k \in 1..MaxSteps |-> 0],
     delays |-> [k \in 1..MaxSteps |-> <<>>], trail |-> <<>>]

OrchInit ==
    /\ EngineIdle /\ TwoRunsIdle /\ CachingIdle /\ ProcessorIdle
    /\ steps = <<>>
    /\ wf = IdleWorkflow

\* addStep(step)
addStep(step) ==
    /\ wf.pc = "idle"
    /\ Len(steps) < MaxSteps
    /\ steps' = Append(steps, step)
    /\ UNCHANGED <<wf, engine, twoRuns, caching, processor>>

\* execute(initialState): state = {...initialState}, the for loop is entered.
execute ==
    /\ wf.pc = "idle"
    /\ wf' = [wf EXCEPT !.pc = "for", !.i = 1]
    /\ UNCHANGED <<steps, engine, twoRuns, caching, processor>>

\* } catch (error) { state.error = error.message; return state; }
ExecuteCatch(e) == [wf EXCEPT !.pc = "returned", !.error = e]

\* Variant: the skipped step is recorded as the current step.
StepSkippedMarked ==
    /\ wf.pc = "for" /\ wf.i <= Len(steps)
    /\ steps[wf.i].condition = "false"
    /\ wf' = [wf EXCEPT !.i = wf.i + 1, !.currentStep = StepName(wf.i)]
    /\ UNCHANGED <<steps, engine, twoRuns, caching, processor>>

\* if (step.condition && !step.condition(state)) continue;
StepSkipped ==
    /\ wf.pc = "for" /\ wf.i <= Len(steps)
    /\ steps[wf.i].condition = "false"
    /\ wf' = [wf EXCEPT !.i = wf.i + 1]
    /\ UNCHANGED <<steps, engine, twoRuns, caching, processor>>

\* step.condition(state) throws: the catch block returns the state.
ConditionThrows ==
    /\ wf.pc = "for" /\ wf.i <= Len(steps)
    /\ steps[wf.i].condition = "throws"
    /\ wf' = ExecuteCatch(<<"condition", wf.i>>)
    /\ UNCHANGED <<steps, engine, twoRuns, caching, processor>>

\* The step is not skipped: state.currentStep = step.name, the inputBuilder is
\* awaited and returns, retries = 0.
StepBegins ==
    /\ wf.pc = "for" /\ wf.i <= Len(steps)
    /\ steps[wf.i].condition \in {"none", "true"}
    /\ steps[wf.i].inputBuilder = "returns"
    /\ wf' = [wf EXCEPT !.pc = "while", !.currentStep = StepName(wf.i),
                        !.built = wf.built \cup {wf.i}, !.retries = 0,
                        !.trail = Append(wf.trail, wf.i)]
    /\ UNCHANGED <<steps, engine, twoRuns, caching, processor>>

\* ... and the inputBuilder throws.
InputBuilderThrows ==
    /\ wf.pc = "for" /\ wf.i <= Len(steps)
    /\ steps[wf.i].condition \in {"none", "true"}
    /\ steps[wf.i].inputBuilder = "throws"
    /\ wf' = [ExecuteCatch(<<"inputBuilder", wf.i>>)
                EXCEPT !.currentStep = StepName(wf.i),
                       !.built = wf.built \cup {wf.i},
                       !.trail = Append(wf.trail, wf.i)]
    /\ UNCHANGED <<steps, engine, twoRuns, caching, processor>>

\* step.agent.process(input) returns: state[step.outputKey] = result, and the
\* for loop goes on.
AgentReturns ==
    /\ wf.pc = "while"
    /\ wf.retries <= maxRetriesOf(steps[wf.i])
    /\ wf' = [wf EXCEPT !.pc = "for", !.i = wf.i + 1,
                        !.out = wf.out \cup {wf.i},
                        !.invoked[wf.i] = wf.invoked[wf.i] + 1]
    /\ UNCHANGED <<steps, engine, twoRuns, caching, processor>>

\* step.agent.process(input) throws: retries++, and the backoff wait begins or,
\* with no retry left, the last error is thrown to the catch block.
AgentThrows ==
    /\ wf.pc = "while"
    /\ wf.retries <= maxRetriesOf(steps[wf.i])
    /\ LET e == <<"agent", wf.i, wf.retries + 1>>
           r == wf.retries + 1
           counted == [wf EXCEPT !.invoked[wf.i] = wf.invoked[wf.i] + 1,
                                 !.thrown = e, !.retries = r]
       IN  wf' = IF r <= maxRetriesOf(steps[wf.i])
                 THEN [counted EXCEPT !.pc = "backoff",
                                      !.delays[wf.i] = Append(wf.delays[wf.i], stepBackoff(r))]
                 ELSE [counted EXCEPT !.pc = "returned", !.error = e]
    /\ UNCHANGED <<steps, engine, twoRuns, caching, processor>>

\* The backoff timer fires.
BackoffOver ==
    /\ wf.pc = "backoff"
    /\ wf' = [wf EXCEPT !.pc = "while"]
    /\ UNCHANGED <<steps, engine, twoRuns, caching, processor>>

\* The for loop is through: state.currentStep = "complete"; return state.
Completes ==
    /\ wf.pc = "for" /\ wf.i > Len(steps)
    /\ wf' = [wf EXCEPT !.pc = "returned", !.currentStep = CompleteStep]
    /\ UNCHANGED <<steps, engine, twoRuns, caching, processor>>

OrchNext ==
    \/ \E step \in StepShapes : addStep(step)
    \/ execute
    \/ StepSkipped
    \/ ConditionThrows
    \/ StepBegins
    \/ InputBuilderThrows
    \/ AgentReturns
    \/ AgentThrows
    \/ BackoffOver
    \/ Completes

OrchSpec == OrchInit /\ [][OrchNext]_vars

\* ------------------------------------- the orchestrator agent and the cache
\* The two calls of orchestratorAgent.process in a run: planning with the
\* trace alone, synthesis with the trace and a context holding the task
\* results and the plan.
Traces == {"t1", "t2"}
TaskResultSets == {"results1", "results2"}
NoContext == "none"

\* OrchestratorAgent.formatInput: `const { trace } = input`, and the prompt is
\* built from the system prompt and the summaries of the trace.
orchestratorFormatInput(input) == <<"orchestrator prompt", input.trace>>

\* The unexpired value the cache holds under the key, null if none.
LiveEntry(key) ==
    IF key \in DOMAIN cache /\ ~Expired(cache[key]) THEN cache[key].value ELSE Null

\* orchestratorAgent.process(agentInput) up to the model call, for run `run`.
orchestratorProcess(kind, run, agentInput, cacheTTL) ==
    /\ Len(calls) < MaxCalls
    /\ LET input == orchestratorFormatInput(agentInput)
           key == generateCacheKey(input)
           cached == CacheGet(key)
           call == [kind |-> kind, run |-> run, agentInput |-> agentInput,
                    input |-> input, key |-> key, enableCache |-> TRUE,
                    cacheTTL |-> cacheTTL, start |-> now, after |-> Len(served),
                    entry |-> LiveEntry(key),
                    phase |-> "model", invoked |-> FALSE, raw |-> Null,
                    result |-> NoResult, end |-> 0]
       IN  /\ cache' = CacheAfterGet(key)
           /\ IF Truthy(cached)
              THEN /\ calls' = Append(calls, [call EXCEPT !.phase = "done",
                                                          !.raw = cached,
                                                          !.result = parseOutput(cached),
                                                          !.end = now])
                   /\ served' = Append(served, Len(calls) + 1)
              ELSE /\ calls' = Append(calls, call)
                   /\ served' = served
    /\ UNCHANGED <<now, engine, twoRuns, orchestrator, processor>>

\* state.orchestration = await orchestratorAgent.process({trace: state.trace})
PlanningCall(trace, cacheTTL) ==
    orchestratorProcess("planning", Len(calls) + 1,
                        [trace |-> trace, context |-> NoContext], cacheTTL)

\* state.synthesis = await orchestratorAgent.process(synthesisInput), in a run
\* whose planning call has returned and whose tasks left the results given.
SynthesisCall(p, results) ==
    /\ p \in 1..Len(calls)
    /\ calls[p].kind = "planning" /\ calls[p].phase = "done"
    /\ \A j \in 1..Len(calls) : calls[j].kind = "synthesis" => calls[j].run # p
    /\ orchestratorProcess("synthesis", p,
                           [trace |-> calls[p].agentInput.trace,
                            context |-> results], calls[p].cacheTTL)

SynthesisCacheNext ==
    \/ \E trace \in Traces : \E cacheTTL \in CacheTTLs : PlanningCall(trace, cacheTTL)
    \/ \E p \in 1..MaxCalls : \E results \in TaskResultSets : SynthesisCall(p, results)
    \/ \E i \in 1..MaxCalls : \E raw \in RawResponses : ModelReturns(i, raw)
    \/ \E i \in 1..MaxCalls : ModelThrows(i)
    \/ Tick

SynthesisCacheSpec == CacheInit /\ [][SynthesisCacheNext]_vars

\* ------------------------------------------------ the calls of InMemoryLLMCache
\* The cache used directly: set, get, has and clear in any order, while time
\* passes.  `served` holds what the latest get or has returned.
CacheKeys == {generateCacheKey(input) : input \in FormattedInputs}

\* await cache.set(key, value, ttl)
CacheSetCall(key, value, ttl) ==
    /\ cache' = CacheSet(key, value, ttl)
    /\ served' = <<>>
    /\ UNCHANGED <<now, calls, engine, twoRuns, orchestrator, processor>>

\* await cache.get(key)
CacheGetCall(key) ==
    /\ served' = <<[op |-> "get", key |-> key, returned |-> CacheGet(key)]>>
    /\ cache' = CacheAfterGet(key)
    /\ UNCHANGED <<now, calls, engine, twoRuns, orchestrator, processor>>

\* await cache.has(key)
CacheHasCall(key) ==
    /\ served' = <<[op |-> "has", key |-> key,
                    returned |-> IF CacheHas(key) THEN "true" ELSE "false"]>>
    /\ UNCHANGED <<cache, now, calls, engine, twoRuns, orchestrator, processor>>

\* await cache.clear(keys): the keys given are deleted
CacheClearKeys(keys) ==
    /\ cache' = [k \in DOMAIN cache \ keys |-> cache[k]]
    /\ served' = <<>>
    /\ UNCHANGED <<now, calls, engine, twoRuns, orchestrator, processor>>

\* await cache.clear(): everything is deleted
CacheClearAll ==
    /\ cache' = <<>>
    /\ served' = <<>>
    /\ UNCHANGED <<now, calls, engine, twoRuns, orchestrator, processor>>

CacheOpsNext ==
    \/ \E key \in CacheKeys : \E value \in RawResponses : \E ttl \in CacheTTLs :
         CacheSetCall(key, value, ttl)
    \/ \E key \in CacheKeys : CacheGetCall(key)
    \/ \E key \in CacheKeys : CacheHasCall(key)
    \/ \E keys \in SUBSET CacheKeys : CacheClearKeys(keys)
    \/ CacheClearAll
    \/ Tick

CacheOpsSpec == CacheInit /\ [][CacheOpsNext]_vars

\* ------------------------------------------------------------ TraceProcessor
\* The queue worker: start() and stop() called in any order, the timers of
\* poll() firing, receiveMessages returning and the processMessage calls
\* running to their end, every await being a point where the others can run.
MaxStartCalls == 3

\* private maxConcurrentProcessing: number = 5
maxConcurrentProcessing == 5

ProcessorInit ==
    /\ EngineIdle /\ TwoRunsIdle /\ OrchestratorIdle /\ CachingIdle
    /\ ProcessorIdle

ProcessorFrame == UNCHANGED <<engine, twoRuns, orchestrator, caching>>

\* poll(): nothing when isProcessing is false, a new timer otherwise
poll(running) == IF running THEN 1 ELSE 0

Without(seq, i) == [j \in 1..(Len(seq) - 1) |-> IF j < i THEN seq[j] ELSE seq[j + 1]]

\* start() up to its await: a call made while isProcessing is set returns
start ==
    /\ startCalls < MaxStartCalls
    /\ startCalls' = startCalls + 1
    /\ IF isProcessing
       THEN UNCHANGED <<isProcessing, initializing>>
       ELSE isProcessing' = TRUE /\ initializing' = initializing + 1
    /\ UNCHANGED <<currentlyProcessing, timers, receiving, inProcess>>
    /\ ProcessorFrame

\* sqsService.initialize() returns to start(), which calls poll()
InitializeReturns ==
    /\ initializing > 0
    /\ initializing' = initializing - 1
    /\ timers' = timers + poll(isProcessing)
    /\ UNCHANGED <<isProcessing, currentlyProcessing, startCalls, receiving,
                   inProcess>>
    /\ ProcessorFrame

\* sqsService.initialize() throws: the catch of start()
InitializeThrows ==
    /\ initializing > 0
    /\ initializing' = initializing - 1
    /\ isProcessing' = FALSE
    /\ UNCHANGED <<currentlyProcessing, startCalls, timers, receiving,
                   inProcess>>
    /\ ProcessorFrame

\* stop()
stop ==
    /\ isProcessing
    /\ isProcessing' = FALSE
    /\ UNCHANGED <<currentlyProcessing, startCalls, initializing, timers,
                   receiving, inProcess>>
    /\ ProcessorFrame

\* A timer of poll() fires: with capacity left the callback asks the queue
\* for that many messages and awaits them; without, it goes on to the next
\* poll() at once.
PollTimerFires ==
    /\ timers > 0
    /\ IF currentlyProcessing < maxConcurrentProcessing
       THEN /\ receiving' = Append(receiving,
                               maxConcurrentProcessing - currentlyProcessing)
            /\ timers' = timers - 1
       ELSE /\ timers' = (timers - 1) + poll(isProcessing)
            /\ UNCHANGED receiving
    /\ UNCHANGED <<isProcessing, currentlyProcessing, startCalls, initializing,
                   inProcess>>
    /\ ProcessorFrame

\* receiveMessages returns at most the number of messages asked for, and the
\* callback calls processMessage for each without awaiting it.  Each call
\* runs to its first await: one with no Body or no ReceiptHandle returns
\* before the increment, one whose Body does not parse increments and
\* decrements, one without a traceId awaits deleteMessage, any other awaits
\* simulateProcessing.  Then the callback goes on to the next poll().
ReceiveReturns(i, processing, withoutTraceId) ==
    /\ i \in DOMAIN receiving
    /\ processing + withoutTraceId <= receiving[i]
    /\ currentlyProcessing' = currentlyProcessing + processing + withoutTraceId
    /\ inProcess' = [inProcess EXCEPT
                       !.simulateProcessing = @ + processing,
                       !.deleteWithoutTraceId = @ + withoutTraceId]
    /\ receiving' = Without(receiving, i)
    /\ timers' = timers + poll(isProcessing)
    /\ UNCHANGED <<isProcessing, startCalls, initializing>>
    /\ ProcessorFrame

\* receiveMessages throws: the catch of the callback, then the next poll()
ReceiveThrows(i) ==
    /\ i \in DOMAIN receiving
    /\ receiving' = Without(receiving, i)
    /\ timers' = timers + poll(isProcessing)
    /\ UNCHANGED <<isProcessing, currentlyProcessing, startCalls, initializing,
                   inProcess>>
    /\ ProcessorFrame

\* simulateProcessing returns or throws (the inner catch): the call goes on
\* to await deleteMessage
ProcessingSettles ==
    /\ inProcess.simulateProcessing > 0
    /\ inProcess' = [inProcess EXCEPT !.simulateProcessing = @ - 1,
                                      !.deleteMessage = @ + 1]
    /\ UNCHANGED <<isProcessing, currentlyProcessing, startCalls, initializing,
                   timers, receiving>>
    /\ ProcessorFrame

\* deleteMessage returns, or throws into the outer catch: the decrement at
\* the end of processMessage
DeleteSettles ==
    /\ inProcess.deleteMessage > 0
    /\ inProcess' = [inProcess EXCEPT !.deleteMessage = @ - 1]
    /\ currentlyProcessing' = currentlyProcessing - 1
    /\ UNCHANGED <<isProcessing, startCalls, initializing, timers, receiving>>
    /\ ProcessorFrame

\* deleteMessage of a message without traceId returns (the decrement before
\* the early return) or throws (the outer catch, then the decrement at the
\* end)
DeleteWithoutTraceIdSettles ==
    /\ inProcess.deleteWithoutTraceId > 0
    /\ inProcess' = [inProcess EXCEPT !.deleteWithoutTraceId = @ - 1]
    /\ currentlyProcessing' = currentlyProcessing - 1
    /\ UNCHANGED <<isProcessing, startCalls, initializing, timers, receiving>>
    /\ ProcessorFrame

ProcessorNext ==
    \/ start
    \/ InitializeReturns
    \/ InitializeThrows
    \/ stop
    \/ PollTimerFires
    \/ \E i \in DOMAIN receiving :
         \E processing \in 0..receiving[i] :
           \E withoutTraceId \in 0..(receiving[i] - processing) :
             ReceiveReturns(i, processing, withoutTraceId)
    \/ \E i \in DOMAIN receiving : ReceiveThrows(i)
    \/ ProcessingSettles
    \/ DeleteSettles
    \/ DeleteWithoutTraceIdSettles

ProcessorSpec == ProcessorInit /\ [][ProcessorNext]_vars

\* =================================================================== claims
\* The planner has handed over a plan.
Planned == pc \notin {"planning"} /\ ~(error # Undefined /\ error.msg = PlanMsg)
InMap(name) == \E i \in 1..Len(taskMap) : taskMap[i].name = name
\* taskMap.get(name)
TaskOf(name) == taskMap[CHOOSE i \in 1..Len(taskMap) : taskMap[i].name = name]
IsErr(msg) == error # Undefined /\ error.msg = msg
Range(seq) == {seq[i] : i \in 1..Len(seq)}

\* C1 -- Dependency ordering: whenever a worker is invoked for a task (first
\* attempt or retry), and whenever a task completes, every task named in its
\* dependencies is already completed and has a recorded result; so tasks
\* complete in a topological order of the dependency graph.
C1_DependencyOrdering ==
    [][\A n \in TaskNames :
          (invoked'[n] # invoked[n] \/ (n \in completedTasks' /\ n \notin completedTasks))
          => \A d \in TaskOf(n).dependencies :
                d \in completedTasks /\ d \in DOMAIN taskResults]_vars

\* A task with a dependency has run and completed after the task it depends on.
C1_Witness ==
    \E n \in completedTasks :
        /\ TaskOf(n).dependencies # {}
        /\ invoked[n] >= 1
        /\ \A d \in TaskOf(n).dependencies : d \in DOMAIN taskResults /\ d # n

\* Everything reachable from the names in S along at most k dependency edges.
RECURSIVE DepClosure(_, _)
DepClosure(S, k) ==
    IF k = 0 THEN S
    ELSE DepClosure(S \cup UNION {TaskOf(m).dependencies : m \in {x \in S : InMap(x)}},
                    k - 1)
\* Everything the task named n depends on, directly or through other tasks.
DependsOn(n) == DepClosure(TaskOf(n).dependencies, Len(taskMap))
\* The task named n lies on a dependency cycle of the task map.
OnCycle(n) == InMap(n) /\ n \in DependsOn(n)
\* The task named n names a dependency that is no task of the map.
Dangling(n) == InMap(n) /\ \E d \in TaskOf(n).dependencies : ~InMap(d)
\* n is dangling or depends, through other tasks, on a dangling one.
DependsOnDangling(n) ==
    InMap(n) /\ \E m \in {n} \cup DependsOn(n) : Dangling(m)
\* The run ended because a task outside the set P failed.
FailedOutside(P(_)) ==
    IsErr(FailedMsg) /\ ~P(error.tasks[1])

\* C2 (as claimed) -- Cycle detection: for any plan containing a dependency
\* cycle the run ends with the deadlock error naming every task on the cycle,
\* and no task on the cycle is ever invoked.  Stated for the runs in which
\* every worker call returned an output or threw.
C2_Original ==
    \A n \in TaskNames :
        (OnCycle(n) /\ pc = "done" /\ lastOutcome # "null")
        => IsErr(CycleMsg) /\ n \in Range(error.tasks) /\ invoked[n] = 0

\* C2 (amended) -- for any plan whose task map contains a dependency cycle, no
\* task on the cycle is ever invoked or completed and the run never reaches
\* synthesis; it ends with the deadlock error naming every task on the cycle,
\* unless a task outside the cycle fails first (exhausts its retries or returns
\* no output), and then it ends with that task's failure error.
C2_CycleDetection ==
    \A n \in TaskNames :
        OnCycle(n)
        => /\ invoked[n] = 0
           /\ n \notin completedTasks
           /\ pc # "synthesis" /\ currentStep # "complete"
           /\ pc = "done"
                => \/ IsErr(CycleMsg) /\ n \in Range(error.tasks)
                   \/ FailedOutside(OnCycle)
           /\ (pc = "done" /\ lastOutcome \in {"none", "ok"}) => IsErr(CycleMsg)

\* A run ended with the deadlock error for a two-task cycle, naming both.
C2_Witness ==
    /\ pc = "done"
    /\ IsErr(CycleMsg)
    /\ \E a, b \in TaskNames :
         /\ a # b /\ OnCycle(a) /\ OnCycle(b)
         /\ a \in TaskOf(b).dependencies /\ b \in TaskOf(a).dependencies
         /\ {a, b} \subseteq Range(error.tasks)

\* C3 (as claimed) -- Dangling dependency: a task naming a dependency that is
\* no task of the plan is never invoked and the run ends with the deadlock
\* error naming it and every task that transitively depends on it.  Stated
\* for the runs in which every worker call returned an output or threw.
C3_Original ==
    \A n \in TaskNames :
        (DependsOnDangling(n) /\ pc = "done" /\ lastOutcome # "null")
        => IsErr(CycleMsg) /\ n \in Range(error.tasks) /\ invoked[n] = 0

\* C3 (amended) -- a task of the task map that names a dependency which is no
\* task of the map, and every task that transitively depends on it, is never
\* invoked or completed and the run never reaches synthesis; it ends with the
\* deadlock error naming all those tasks, unless another task fails first
\* (exhausts its retries or returns no output), and then it ends with that
\* task's failure error.
C3_DanglingDependency ==
    \A n \in TaskNames :
        DependsOnDangling(n)
        => /\ invoked[n] = 0
           /\ n \notin completedTasks
           /\ pc # "synthesis" /\ currentStep # "complete"
           /\ pc = "done"
                => \/ IsErr(CycleMsg) /\ n \in Range(error.tasks)
                   \/ FailedOutside(DependsOnDangling)
           /\ (pc = "done" /\ lastOutcome \in {"none", "ok"}) => IsErr(CycleMsg)

\* A run ended with the deadlock error naming a task with a dangling
\* dependency and a second task that depends on the first.
C3_Witness ==
    /\ pc = "done"
    /\ IsErr(CycleMsg)
    /\ \E a, b \in TaskNames :
         /\ a # b /\ InMap(b)
         /\ Dangling(a) /\ ~Dangling(b) /\ ~OnCycle(a) /\ ~OnCycle(b)
         /\ a \in TaskOf(b).dependencies
         /\ error.tasks \in {<<a, b>>, <<b, a>>}

\* The retry budget as the claims state it: 3 with retries enabled, else 0.
ClaimedMaxRetries == IF enableRetries THEN 3 ELSE 0
\* The task of the run has exhausted its retry budget: its last attempt threw
\* and no further attempt is allowed.
Exhausted == lastOutcome = "throw" /\ retries > ClaimedMaxRetries
\* The run is Failed.
RunFailed == pc = "done" /\ IsErr(FailedMsg)

\* C4 -- Fail-fast: once a task has exhausted its retry budget the run is
\* Failed (it has ended with the failure error naming that task), and from a
\* failed run on no worker and no synthesis call is made and nothing more is
\* completed.
C4_FailFast ==
    /\ [](Exhausted => RunFailed /\ error.tasks = <<cur.name>>)
    /\ [][(Exhausted' \/ RunFailed)
            => /\ RunFailed'
               /\ synthCalls' = 0
               /\ RunFailed => (invoked' = invoked /\ completedTasks' = completedTasks)]_vars

\* A run failed after a task used up all its attempts; the task depending on
\* it was never invoked.
C4_Witness ==
    /\ RunFailed /\ Exhausted
    /\ \E n \in TaskNames :
         /\ InMap(n) /\ invoked[n] = 0
         /\ TaskOf(n).dependencies = {error.tasks[1]}

\* C5 -- Retry bound: a worker is invoked at most maxRetries + 1 times per
\* task and run, at least once for every task that completed or failed, and
\* an attempt is made only while the failed attempts number <= maxRetries;
\* maxRetries is 3 with enableRetries and 0 without, where every worker that
\* ran was invoked exactly once.
C5_RetryBound ==
    /\ maxRetries = ClaimedMaxRetries
    /\ \A n \in TaskNames :
         /\ invoked[n] <= ClaimedMaxRetries + 1
         /\ n \in completedTasks => invoked[n] >= 1
         /\ (RunFailed /\ error.tasks = <<n>>) => invoked[n] >= 1
         /\ (~enableRetries /\ (n \in completedTasks \/ (RunFailed /\ error.tasks = <<n>>)))
              => invoked[n] = 1
    /\ pc = "attempt" => invoked[cur.name] <= ClaimedMaxRetries
    /\ pc = "backoff" => invoked[cur.name] <= ClaimedMaxRetries

\* With retries enabled a worker was invoked four times and the run failed.
C5_Witness ==
    /\ enableRetries /\ RunFailed
    /\ \E n \in TaskNames : invoked[n] = 4 /\ error.tasks = <<n>>

ClaimedDelay(n) == <<1000, 2000, 4000, 8000, 10000>>[Min(n, 5)]

\* C7 -- Backoff delay: the n-th delay awaited for a task is
\* min(1000 * 2^(n-1), 10000) ms: 1000, 2000, 4000 for three retries,
\* non-decreasing and never above 10000.
C7_BackoffDelay ==
    /\ \A i \in 1..Len(delays) :
         /\ delays[i] = ClaimedDelay(i)
         /\ delays[i] <= 10000
         /\ i > 1 => delays[i - 1] <= delays[i]
    /\ pc = "backoff" => Len(delays) = invoked[cur.name]
    /\ (enableRetries /\ Len(delays) >= 3) => delays = <<1000, 2000, 4000>>

\* Three retries were made for a task after delays of 1000, 2000 and 4000 ms.
C7_Witness ==
    /\ pc = "done" /\ currentStep = "complete"
    /\ delays = <<1000, 2000, 4000>>
    /\ invoked[taskMap[Len(taskMap)].name] = 4

\* C8 -- Backoff placement: before the (n+1)-th attempt of a task exactly n
\* delays have been awaited (none before the first), a delay is always
\* followed by a retry attempt, and after the attempt that exhausts the
\* budget no delay is awaited.
C8_BackoffPlacement ==
    /\ [](pc = "attempt" => Len(delays) = invoked[cur.name])
    /\ [](pc = "backoff" => invoked[cur.name] >= 1 /\ Len(delays) = invoked[cur.name])
    /\ []((RunFailed /\ lastOutcome = "throw") => Len(delays) = invoked[cur.name] - 1)
    /\ []((RunFailed /\ lastOutcome = "null") => Len(delays) = invoked[cur.name] - 1)
    /\ [][pc = "backoff" => pc' = "attempt"]_vars
    /\ [][(pc = "attempt" /\ pc' = "attempt") => FALSE]_vars
    /\ [][Len(delays') > Len(delays) => (pc = "attempt" /\ pc' = "backoff")]_vars

\* A task failed for good on its fourth attempt after three awaited delays.
C8_Witness ==
    /\ RunFailed /\ lastOutcome = "throw"
    /\ invoked[cur.name] = 4 /\ Len(delays) = 3

\* Two tasks of the plan carry the same name.
HasDuplicateNames(p) ==
    \E i, j \in 1..Len(p) : i # j /\ p[i].name = p[j].name

\* C9 (as claimed) -- Plan validation: a plan in which two tasks have the same
\* name is rejected with an error before any dispatch, and no worker is
\* invoked for any task of it.
C9_PlanValidation ==
    HasDuplicateNames(plan)
    => /\ \A n \in TaskNames : invoked[n] = 0
       /\ synthCalls = 0
       /\ pc = "done" => error # Undefined

\* The three ways a run with a plan ends.
Completed ==
    /\ currentStep = "complete" /\ error = Undefined
    /\ \A n \in TaskNames : InMap(n) => n \in completedTasks
Deadlocked ==
    /\ IsErr(CycleMsg) /\ currentStep = "executing_tasks"
    /\ \E n \in TaskNames : InMap(n) /\ n \notin completedTasks
Failed ==
    /\ IsErr(FailedMsg) /\ currentStep = "executing_tasks"
    /\ invoked[error.tasks[1]] >= 1 /\ error.tasks[1] \notin completedTasks
ExactlyOne(a, b, c) ==
    (a /\ ~b /\ ~c) \/ (~a /\ b /\ ~c) \/ (~a /\ ~b /\ c)

\* A measure of the work a run has left, for the termination argument:
\* the tasks not completed count most, then the position within the pass (a
\* pass that has made progress ranks above the loop test, which ranks above a
\* pass that has not), then the steps left in the retry loop.
Slot == 2 * (maxRetries + 1) + 1
PassSpan(len) == (len + 1) * Slot + 1
Weight(len) == 2 * PassSpan(len) + 2
Measure ==
    LET len == Len(taskMap)
        left == len - Cardinality(completedTasks)
        lift == IF madeProgress THEN PassSpan(len) + 1 ELSE 0
        scan == (len + 1 - idx) * Slot
    IN  CASE pc = "done" -> 0
          [] pc = "synthesis" -> 1
          [] pc = "planning" -> 2 + (MaxTasks + 1) * Weight(MaxTasks)
          [] pc = "while" -> 2 + left * Weight(len) + PassSpan(len)
          [] pc = "for" -> 2 + left * Weight(len) + lift + scan
          [] pc = "attempt" -> 2 + left * Weight(len) + lift + scan - 1 - 2 * retries
          [] pc = "backoff" -> 2 + left * Weight(len) + lift + scan - 2 * retries

\* C10 -- Termination: a run cannot go on for ever, since every step lowers a
\* natural-valued measure, and it cannot get stuck before its end, since a
\* step is possible in every state but the final ones (with every call
\* returning or throwing and every timer firing, the run therefore ends); a
\* run with a plan ends in exactly one of Completed, Deadlocked and Failed; a
\* pass that does not end the run completed at least one task, and the passes
\* number at most the number of tasks plus one.
C10_Termination ==
    /\ [][Measure' < Measure]_vars
    /\ [](pc # "done" => ENABLED Next)
    /\ []((pc = "done" /\ Planned) => ExactlyOne(Completed, Deadlocked, Failed))
    /\ [](passes <= Len(plan) + 1 /\ passes <= Len(taskMap) + 1)
    /\ [][(pc = "for" /\ pc' = "while")
            => Cardinality(completedTasks) > doneAtPassStart]_vars
    /\ [][pc = "done" => pc' = "done"]_vars

\* The same as a liveness property of the fair specification: every run ends.
C10_EventuallyDone == <>(pc = "done")

\* A run needed two passes for two tasks (the second listed first) and
\* completed.
C10_Witness ==
    /\ pc = "done" /\ Completed
    /\ passes = 2 /\ Len(taskMap) = 2

\* The names of the task map that are not completed.
Incomplete == {n \in TaskNames : InMap(n) /\ n \notin completedTasks}
\* The task taken up last.
LastDispatched == dispatchLog[Len(dispatchLog)].name
\* The tasks whose worker returned an output: every task taken up, but for the
\* one the run failed at.
Succeeded ==
    {n \in TaskNames : invoked[n] >= 1 /\ ~(IsErr(FailedMsg) /\ n = LastDispatched)}
\* The output the worker of the task named n returns.
OutputOf(n) == Output(resolveAgent(TaskOf(n)), n)

C13_DeadlockExact ==
    IsErr(CycleMsg)
    => /\ pc = "done" /\ idx > Len(taskMap)
       /\ \A i \in 1..Len(dispatchLog) : dispatchLog[i].pass # passes
       /\ Incomplete # {}
       /\ \A n \in Incomplete : ~(TaskOf(n).dependencies \subseteq completedTasks)
       /\ Range(error.tasks) = Incomplete
       /\ Len(error.tasks) = Cardinality(Incomplete)

\* A deadlock reported in the second pass, after the first pass completed a
\* task: the report names the other task only.
C13_Witness ==
    /\ IsErr(CycleMsg)
    /\ passes = 2
    /\ Cardinality(completedTasks) = 1
    /\ Len(error.tasks) = 1

\* C14 (as claimed) -- Task failure report: whenever a run ends because a task
\* could not be executed, the error names that task and the number of worker
\* invocations made for it.
C14_Original ==
    RunFailed
    => /\ error.tasks = <<LastDispatched>>
       /\ error.retries = invoked[LastDispatched]

\* C14 (amended) -- whenever a run ends because a task could not be executed,
\* the error names that task and the number of its attempts that threw: that is
\* every worker invocation made for it (one without retries, four with) when
\* the task exhausted its retry budget, and one less than the invocations made
\* when the last invocation returned no output.
C14_TaskFailureReport ==
    RunFailed
    => /\ error.tasks = <<LastDispatched>>
       /\ lastOutcome \in {"throw", "null"}
       /\ lastOutcome = "throw"
            => /\ error.retries = invoked[LastDispatched]
               /\ error.retries = ClaimedMaxRetries + 1
       /\ lastOutcome = "null"
            => error.retries = invoked[LastDispatched] - 1

\* A worker threw twice and then returned no output: three invocations, and
\* the error reports two.
C14_Witness ==
    /\ RunFailed
    /\ lastOutcome = "null"
    /\ invoked[LastDispatched] = 3
    /\ error.retries = 2

\* C15 -- The result store is write-once and append-only: an entry, once
\* written, is never changed or removed during the run, and the only write is
\* the one that adds the entry of the task whose worker has just returned its
\* output (nothing is written for a task that fails).
C15_WriteOnce ==
    [][/\ DOMAIN taskResults \subseteq DOMAIN taskResults'
       /\ \A n \in DOMAIN taskResults : taskResults'[n] = taskResults[n]
       /\ taskResults' # taskResults
            => /\ pc = "attempt" /\ lastOutcome' = "ok"
               /\ invoked'[cur.name] = invoked[cur.name] + 1
               /\ cur.name \notin DOMAIN taskResults
               /\ DOMAIN taskResults' = DOMAIN taskResults \cup {cur.name}]_vars

\* Two entries were written, one after the other, and both are in the store.
C15_Witness ==
    /\ Cardinality(DOMAIN taskResults) = 2
    /\ \A n \in DOMAIN taskResults : invoked[n] >= 1 /\ taskResults[n] = OutputOf(n)
    /\ \E n \in DOMAIN taskResults : invoked[n] >= 2

\* The names whose results can be read from a context.
Keys(view) == IF view = Undefined THEN {} ELSE DOMAIN view

\* C16 -- Causal ordering of the shared context: when a task is taken up, and
\* at every invocation of its worker (first attempt or retry), the results
\* readable through the context of its input are those of exactly the tasks
\* completed by then, each the output of its worker; the task itself is not
\* among them.
C16_CausalContext ==
    [][\A n \in TaskNames :
          (invoked'[n] # invoked[n] \/ (inputRef[n] = "none" /\ inputRef'[n] # "none"))
          => LET view == ViewOf(inputRef'[n], taskResults)
             IN  /\ Keys(view) = completedTasks
                 /\ n \notin Keys(view)
                 /\ \A m \in Keys(view) :
                       /\ view[m] = OutputOf(m)
                       /\ \E i \in 1..(Len(dispatchLog') - 1) : dispatchLog'[i].name = m]_vars

\* The worker of a second task is being invoked again after a throw, with the
\* result of the first task in its context.
C16_Witness ==
    /\ pc = "attempt" /\ retries >= 1
    /\ inputRef[cur.name] = "store"
    /\ Keys(ViewOf(inputRef[cur.name], taskResults)) = completedTasks
    /\ completedTasks # {}

\* C17 -- Snapshot immutability: what can be read through the context handed
\* to a task never changes after the task was taken up; results recorded later
\* do not show in it.
C17_SnapshotImmutable ==
    [][\A n \in TaskNames :
          inputRef[n] # "none"
          => ViewOf(inputRef'[n], taskResults') = ViewOf(inputRef[n], taskResults)]_vars

\* C18 -- Synthesis runs once and last: the synthesis call is made at most
\* once (not again after it threw), only when every task of the plan has a
\* recorded result, never in a run that ends with an error; no worker is
\* invoked and no result is recorded after it.
C18_SynthesisOnceLast ==
    /\ [](/\ synthCalls <= 1
          /\ synthCalls = 1
               => /\ pc = "done" /\ error = Undefined
                  /\ \A i \in 1..Len(plan) :
                        /\ plan[i].name \in completedTasks
                        /\ plan[i].name \in DOMAIN taskResults
          /\ error # Undefined => synthCalls = 0)
    /\ [][synthCalls' # synthCalls
            => /\ synthCalls = 0
               /\ \A i \in 1..Len(plan) : plan[i].name \in DOMAIN taskResults]_vars
    /\ [][synthCalls >= 1
            => invoked' = invoked /\ taskResults' = taskResults]_vars

\* The synthesis call was made once, after two passes had completed two tasks.
C18_Witness ==
    /\ pc = "done" /\ synthCalls = 1
    /\ passes = 2 /\ Cardinality(completedTasks) = 2

\* The types whose results the claim counts.
ClaimedCategories == {"analysis", "context", "diagnosis", "recommendation"}
\* The run completed its tasks and went through the synthesis step.
WentThroughSynthesis == pc = "done" /\ currentStep = "complete"
\* Some recorded result comes from a task of one of the types in T.
HasResultOfType(T) ==
    taskResults # Undefined
    /\ \E n \in DOMAIN taskResults : InMap(n) /\ TaskOf(n).type \in T

\* C19 (as claimed) -- Synthesis gating: after all tasks have completed, the
\* synthesis call is made if and only if some recorded result comes from a task
\* of type analysis, context, diagnosis or recommendation.
C19_Original ==
    WentThroughSynthesis
    => (synthCalls = 1 <=> HasResultOfType(ClaimedCategories))

\* C19 (amended) -- after all tasks have completed, the synthesis call is made
\* if and only if some recorded result comes from a task of type analysis,
\* diagnosis or recommendation; a run whose results all come from context or
\* custom tasks, and an empty run, skip synthesis without an error.
C19_SynthesisGating ==
    WentThroughSynthesis
    => /\ synthCalls = 1 <=> HasResultOfType({"analysis", "diagnosis", "recommendation"})
       /\ synthCalls = 0 => error = Undefined /\ synthesis = Undefined

\* A run of a context task and a custom task completed without a synthesis
\* call and without an error.
C19_Witness ==
    /\ WentThroughSynthesis
    /\ synthCalls = 0 /\ error = Undefined
    /\ \E a, b \in DOMAIN taskResults :
          TaskOf(a).type = "context" /\ TaskOf(b).type = "custom"

\* C20 -- Synthesis isolation: when the synthesis call throws, the run still
\* ends completed: no error, no synthesis result, and the result of every task
\* in the store; the synthesis step, whether its call returns or throws, leaves
\* the task results, the typed results and the error as they were.
C20_SynthesisIsolation ==
    /\ [](synthOutcome = "throw"
            => /\ pc = "done" /\ currentStep = "complete"
               /\ error = Undefined /\ synthesis = Undefined
               /\ \A n \in TaskNames :
                     InMap(n) => n \in DOMAIN taskResults /\ taskResults[n] = OutputOf(n))
    /\ [][pc = "synthesis"
            => /\ taskResults' = taskResults
               /\ <<analysis, context, diagnosis, recommendation>>'
                    = <<analysis, context, diagnosis, recommendation>>
               /\ completedTasks' = completedTasks
               /\ error' = error]_vars

\* The synthesis call threw in a run of two tasks.
C20_Witness ==
    /\ synthOutcome = "throw"
    /\ pc = "done" /\ Len(taskMap) = 2

\* C21 -- Empty plan: a run whose plan has no task invokes no worker, makes no
\* synthesis call, and returns completed, with an empty result store, no typed
\* result and no error.
C21_EmptyPlan ==
    (Planned /\ plan = <<>>)
    => /\ \A n \in TaskNames : invoked[n] = 0
       /\ dispatchLog = <<>> /\ passes = 0
       /\ synthCalls = 0 /\ synthesis = Undefined
       /\ taskResults = EmptyMap
       /\ error = Undefined
       /\ pc \in {"while", "synthesis", "done"}
       /\ pc = "done" => currentStep = "complete"

\* The run of an empty plan has returned.
C21_Witness ==
    /\ Planned /\ plan = <<>>
    /\ pc = "done" /\ currentStep = "complete"
    /\ taskResults = EmptyMap

\* The keys under which a worker is registered.
Registered == {"analysis", "context", "diagnosis", "recommendation"} \cup customAgents
\* The worker that produced the recorded result of the task named n.
ExecutedBy(n) == taskResults[n].agent
\* The task names a custom agent.
NamesCustomAgent(t) == t.type = "custom" /\ t.customAgent # ""

\* C22 (as claimed) -- Worker resolution order: a task of type "custom" whose
\* customAgent names a registered worker is executed by that worker; every
\* other task by the worker registered under its type; the default (analysis)
\* worker executes it only when no worker is registered under its type.
C22_Original ==
    \A n \in DOMAIN taskResults :
        LET t == TaskOf(n)
        IN  ExecutedBy(n) =
              IF t.type = "custom" /\ t.customAgent \in Registered THEN t.customAgent
              ELSE IF t.type \in Registered THEN t.type
              ELSE "analysis"

\* C22 (amended) -- a task of type "custom" that names a custom agent is
\* executed by the worker registered under that name, and by the default
\* (analysis) worker when none is registered under that name, whether or not a
\* worker is registered under "custom"; every other task is executed by the
\* worker registered under its type, and by the default worker when none is.
C22_WorkerResolution ==
    \A n \in DOMAIN taskResults :
        LET t == TaskOf(n)
        IN  ExecutedBy(n) =
              IF NamesCustomAgent(t)
              THEN (IF t.customAgent \in Registered THEN t.customAgent ELSE "analysis")
              ELSE IF t.type \in Registered THEN t.type
              ELSE "analysis"

\* A custom task was executed by the custom agent it names, another by the
\* worker registered under "custom".
C22_Witness ==
    \E a, b \in DOMAIN taskResults :
        /\ NamesCustomAgent(TaskOf(a)) /\ ExecutedBy(a) = "special"
        /\ ~NamesCustomAgent(TaskOf(b)) /\ ExecutedBy(b) = "custom"

\* The task named n is executed by the default worker for want of a registered
\* one.
FallsBack(n) ==
    LET t == TaskOf(n)
    IN  IF NamesCustomAgent(t) THEN t.customAgent \notin Registered
        ELSE t.type \notin Registered

\* C23 -- Fallback warning: whenever a task is executed by the default worker
\* because no worker is registered for it, a warning naming the task has been
\* reported through the progress callback.
C23_FallbackWarning ==
    \A n \in TaskNames :
        (invoked[n] >= 1 /\ FallsBack(n))
        => \E i \in 1..Len(progress) :
              progress[i].stage = "warning" /\ progress[i].task = n

\* What the object a reference leads to holds.
Held(ref) == IF ref = NoObject THEN {} ELSE objects[ref]

\* C24 -- Run isolation: the result store a worker input shows and the one a
\* run returns hold only results recorded by that run, and no run writes into
\* the taskResults of the initial state it was given.
C24_RunIsolation ==
    /\ \A r \in DOMAIN runs :
          /\ runs[r].pc = "worker" => \A e \in Held(runs[r].input) : e[2] = r
          /\ runs[r].pc = "done" => \A e \in Held(runs[r].ref) : e[2] = r
    /\ \A o \in DOMAIN objects : o \in InitialObjects => objects[o] = {}

\* The names dispatched in pass p, and in the passes before it.
DispatchedIn(p) ==
    {dispatchLog[i].name : i \in {j \in 1..Len(dispatchLog) : dispatchLog[j].pass = p}}
DispatchedBefore(p) ==
    {dispatchLog[i].name : i \in {j \in 1..Len(dispatchLog) : dispatchLog[j].pass < p}}
\* The place of a name in the task map.
PosOf(n) == CHOOSE k \in 1..Len(taskMap) : taskMap[k].name = n
\* findReadyTasks on the completed set as it stood when pass p started: every
\* task dispatched before pass p is completed then, and no other.
ReadyAtStart(p) ==
    {taskMap[k].name : k \in {j \in 1..Len(taskMap) :
        /\ taskMap[j].name \notin DispatchedBefore(p)
        /\ taskMap[j].dependencies \subseteq DispatchedBefore(p)}}
\* The completed set when pass p comes to the k-th task of the map.
LiveCompleted(p, k) ==
    DispatchedBefore(p) \cup {n \in DispatchedIn(p) : PosOf(n) < k}
\* Pass p has dealt with the k-th task; pass p is through.
Examined(p, k) == p < passes \/ (p = passes /\ k < idx)
PassThrough(p) == p < passes \/ (p = passes /\ idx > Len(taskMap))

\* C25 (as claimed) -- Pass semantics: the tasks dispatched in a pass are
\* exactly the tasks that were ready on the completed set as it stood at the
\* start of the pass.
C25_Original ==
    \A p \in 1..passes :
        /\ DispatchedIn(p) \subseteq ReadyAtStart(p)
        /\ PassThrough(p) => DispatchedIn(p) = ReadyAtStart(p)

\* C25 (amended) -- a pass goes through the tasks in map order, and a task is
\* dispatched in the pass exactly if, when the pass comes to it, it is not
\* completed and all its dependencies are in the completed set as it stands at
\* that moment, completions recorded earlier in the same pass included.
C25_PassSemantics ==
    \A p \in 1..passes : \A k \in 1..Len(taskMap) :
        Examined(p, k)
        => (taskMap[k].name \in DispatchedIn(p)
            <=> /\ taskMap[k].name \notin LiveCompleted(p, k)
                /\ taskMap[k].dependencies \subseteq LiveCompleted(p, k))

\* A task was dispatched in the pass in which its dependency completed, and
\* the pass is through.
C25_Witness ==
    \E p \in 1..passes : \E a, b \in DispatchedIn(p) :
        /\ a \in TaskOf(b).dependencies
        /\ PassThrough(p)
        /\ b \in completedTasks

Stored == IF taskResults = Undefined THEN {} ELSE DOMAIN taskResults

\* C27 -- Completion bookkeeping is atomic: between task steps and in the
\* returned state of every run, failed ones and ones whose progress report
\* throws included, a task name is in the completed set if and only if the
\* result store holds a result for it.
C27_AtomicBookkeeping ==
    pc \in {"while", "for", "synthesis", "done"}
    => \A n \in TaskNames : n \in completedTasks <=> n \in Stored

\* Call j was made after call i had returned.
MadeAfter(j, i) ==
    \E k \in 1..Len(served) : served[k] = i /\ k <= calls[j].after
\* Call j was made before the entry that call i cached expires.
BeforeExpiry(j, i) ==
    calls[i].cacheTTL = 0 \/ calls[j].start < calls[i].end + calls[i].cacheTTL

\* C28 -- Response cache hit: when a process call with caching enabled has
\* invoked the model and returned, a later call with caching enabled and the
\* same formatted input, made before the entry expires, does not invoke the
\* model and returns the parse of the same raw response.
C28_CacheHit ==
    \A i, j \in 1..Len(calls) :
        (/\ calls[i].phase = "done" /\ calls[i].invoked /\ calls[i].enableCache
         /\ calls[j].enableCache /\ calls[j].input = calls[i].input
         /\ MadeAfter(j, i) /\ BeforeExpiry(j, i)
         /\ calls[j].phase # "model")
        => /\ ~calls[j].invoked
           /\ calls[j].result = parseOutput(calls[i].raw)

\* execute has dealt with the k-th step for good.
Passed(k) == k < wf.i
\* The steps of the orchestrator by their place.
StepIndex == IF wf = <<>> THEN {} ELSE 1..Len(steps)
\* Every attempt of the k-th step threw.
StepExhausted(k) ==
    /\ k \in Range(wf.trail) /\ k \notin wf.out
    /\ wf.invoked[k] = maxRetriesOf(steps[k]) + 1

\* C29 -- WorkflowOrchestrator conditional execution: the steps are gone
\* through in the order they were added; a step whose condition returned
\* false has had neither its inputBuilder nor its agent invoked, has written no
\* output and is not the current step; and every step execute has gone past
\* whose condition is absent or returned true was executed.
C29_ConditionalExecution ==
    /\ \A a, b \in 1..(IF wf = <<>> THEN 0 ELSE Len(wf.trail)) :
          a < b => wf.trail[a] < wf.trail[b]
    /\ \A k \in StepIndex :
          /\ (steps[k].condition = "false" /\ (Passed(k) \/ wf.pc = "returned"))
             => /\ k \notin wf.built /\ wf.invoked[k] = 0
                /\ k \notin wf.out /\ k \notin Range(wf.trail)
                /\ wf.currentStep # StepName(k)
          /\ (steps[k].condition \in {"none", "true"} /\ Passed(k))
             => k \in wf.built /\ k \in wf.out

\* A step with a false condition was skipped and the step after it executed.
C29_Witness ==
    /\ wf # <<>> /\ wf.pc = "returned" /\ wf.currentStep = CompleteStep
    /\ Len(steps) = 2
    /\ steps[1].condition = "false" /\ steps[2].condition = "true"
    /\ wf.out = {2}

\* Attempts and delays: the agent of a step is invoked at most maxRetries + 1
\* times, exactly once when maxRetries is unset and the step was executed, and
\* the delay before the n-th retry is min(1000 * 2^(n-1), 10000) ms.
AttemptsAndDelays ==
    \A k \in StepIndex :
        /\ wf.invoked[k] <= maxRetriesOf(steps[k]) + 1
        /\ (steps[k].maxRetries = Unset /\ (k \in wf.out \/ StepExhausted(k)))
           => wf.invoked[k] = 1
        /\ \A n \in 1..Len(wf.delays[k]) : wf.delays[k][n] = ClaimedDelay(n)
        /\ Len(wf.delays[k]) = IF wf.invoked[k] = 0 THEN 0
                               ELSE IF k \in wf.out \/ StepExhausted(k)
                                    THEN wf.invoked[k] - 1
                                    ELSE wf.invoked[k]

\* The step at which execute stopped is the last one touched.
NothingLater(k) ==
    \A m \in StepIndex : m > k => wf.invoked[m] = 0 /\ m \notin wf.built /\ m \notin wf.out

\* C30 (as claimed) -- WorkflowOrchestrator retry and fail-stop: attempts and
\* delays as above; when every attempt of a step threw, no later step is
\* executed and the returned state has the last thrown error as its error and
\* the failing step as currentStep; otherwise the returned state has
\* currentStep "complete".
C30_Original ==
    /\ wf # <<>> => AttemptsAndDelays
    /\ (wf # <<>> /\ wf.pc = "returned")
       => IF \E k \in StepIndex : StepExhausted(k)
          THEN \A k \in StepIndex :
                  StepExhausted(k) => /\ NothingLater(k)
                                  /\ wf.error = wf.thrown
                                  /\ wf.currentStep = StepName(k)
          ELSE wf.currentStep = CompleteStep

\* C30 (amended) -- as claimed, except that execute also stops and returns
\* when a condition or an inputBuilder throws: then no agent is invoked for
\* that step or any later one, the error is what was thrown, and currentStep
\* is the step itself for an inputBuilder and the step executed last before it
\* for a condition; only a run in which nothing of this happens returns with
\* currentStep "complete" and without error.
C30_RetryFailStop ==
    /\ wf # <<>> => AttemptsAndDelays
    /\ (wf # <<>> /\ wf.pc = "returned")
       => IF \E k \in StepIndex : StepExhausted(k)
          THEN \A k \in StepIndex :
                  StepExhausted(k) => /\ NothingLater(k)
                                  /\ wf.error = wf.thrown
                                  /\ wf.currentStep = StepName(k)
          ELSE IF wf.error # NoError
          THEN /\ wf.i \in StepIndex
               /\ wf.invoked[wf.i] = 0 /\ NothingLater(wf.i)
               /\ \/ /\ wf.error = <<"inputBuilder", wf.i>>
                     /\ wf.currentStep = StepName(wf.i)
                  \/ /\ wf.error = <<"condition", wf.i>>
                     /\ wf.currentStep =
                          IF wf.trail = <<>> THEN InitialStep
                          ELSE StepName(wf.trail[Len(wf.trail)])
          ELSE /\ wf.currentStep = CompleteStep
               /\ \A k \in StepIndex : k \in wf.out \/ steps[k].condition = "false"

\* A step failed on its sixth attempt after five retries, the last delay capped.
C30_Witness ==
    /\ wf # <<>> /\ wf.pc = "returned"
    /\ \E k \in StepIndex :
          /\ StepExhausted(k) /\ wf.invoked[k] = 6
          /\ wf.delays[k] = <<1000, 2000, 4000, 8000, 10000>>
          /\ wf.error = <<"agent", k, 6>>
          /\ wf.currentStep = StepName(k)

\* The places in the progress log of the events with message msg about task n.
EventsOf(n, msg) ==
    {i \in 1..Len(progress) : progress[i].task = n /\ progress[i].msg = msg}
\* The run ended with the failure of a task or with a deadlock.
EndedFailedOrDeadlocked ==
    pc = "done" /\ error # Undefined /\ error.msg \in {FailedMsg, CycleMsg}

\* C31 -- Progress event order: a task whose worker was called has one start
\* event; its retry events come after the start event, one for each attempt
\* after the first, numbered 1..k in order; it has a completion event exactly
\* if it completed, then its result is recorded and the event comes after the
\* start and retry events; and when the run ends with a failed task or a
\* deadlock, the last event reported is an error event.
C31_ProgressOrder ==
    /\ \A n \in TaskNames :
          LET S == EventsOf(n, "Executing task")
              R == EventsOf(n, "Retry attempt")
              C == EventsOf(n, "Completed task")
          IN  /\ invoked[n] >= 1 => Cardinality(S) = 1
              /\ Cardinality(R) = IF invoked[n] = 0 THEN 0 ELSE invoked[n] - 1
              /\ \A i \in R : /\ \A j \in S : j < i
                              /\ progress[i].n = Cardinality({j \in R : j <= i})
              /\ C # {} <=> n \in completedTasks
              /\ C # {} => /\ n \in Stored /\ Cardinality(C) = 1
                           /\ \A i \in C : \A j \in S \cup R : j < i
    /\ EndedFailedOrDeadlocked => progress[Len(progress)].stage = "error"

\* A task completed on its third attempt: start, retry 1, retry 2, completion.
C31_Witness ==
    \E n \in completedTasks :
        /\ invoked[n] = 3
        /\ Cardinality(EventsOf(n, "Retry attempt")) = 2
        /\ EventsOf(n, "Completed task") # {}

\* C32 -- Empty worker output: once a worker call has returned no output the
\* run has ended Failed for that task; the call was the task's last one, no
\* result is recorded for the task, and the error reports the number of
\* attempts that threw before it.
C32_EmptyOutput ==
    lastOutcome = "null"
    => /\ pc = "done"
       /\ error # Undefined /\ error.msg = FailedMsg
       /\ error.tasks = <<cur.name>>
       /\ error.retries = invoked[cur.name] - 1
       /\ cur.name \notin Stored /\ cur.name \notin completedTasks

\* With retries enabled a first call returned no output, and a call after two
\* thrown attempts did.
C32_Witness ==
    /\ enableRetries /\ lastOutcome = "null"
    /\ invoked[cur.name] \in {1, 3}
    /\ error.retries = invoked[cur.name] - 1
    /\ \E n \in completedTasks : n # cur.name

\* C33 -- Synthesis input independence: the prompt of a run's synthesis call
\* is the prompt of its planning call, whatever the task results; and when the
\* cache still holds the planning response unexpired as the synthesis call is
\* made, the synthesis call invokes no model and returns the planning output.
C33_SynthesisFromCache ==
    \A j \in 1..Len(calls) :
        calls[j].kind = "synthesis"
        => LET p == calls[j].run
           IN  /\ calls[j].input = calls[p].input
               /\ (calls[j].entry = calls[p].raw /\ calls[j].phase # "model")
                  => /\ ~calls[j].invoked
                     /\ calls[j].result = calls[p].result

\* The field of the state that belongs to a type.
TypedField(T) ==
    CASE T = "analysis" -> analysis
      [] T = "context" -> context
      [] T = "diagnosis" -> diagnosis
      [] T = "recommendation" -> recommendation
\* The places in the dispatch log of the completed tasks of type T.
CompletedOfType(T) ==
    {i \in 1..Len(dispatchLog) :
        /\ dispatchLog[i].name \in completedTasks
        /\ TaskOf(dispatchLog[i].name).type = T}
Latest(S) == CHOOSE i \in S : \A j \in S : j <= i

\* C34 -- Typed result fields: each of the fields analysis, context, diagnosis
\* and recommendation is unset as long as no task of its type has completed,
\* and otherwise is the recorded result of the task of its type that completed
\* last; every completed task keeps its own entry in the task results.
C34_TypedFields ==
    /\ \A T \in ClaimedCategories :
          IF CompletedOfType(T) = {}
          THEN TypedField(T) = Undefined
          ELSE TypedField(T) = taskResults[dispatchLog[Latest(CompletedOfType(T))].name]
    /\ \A n \in completedTasks : n \in Stored /\ taskResults[n] = OutputOf(n)

\* Two tasks of one type completed: the field holds the result of the second,
\* the task results hold both; a custom task completed beside them or not.
C34_Witness ==
    \E T \in ClaimedCategories :
        /\ Cardinality(CompletedOfType(T)) = 2
        /\ \E a, b \in completedTasks :
              /\ a # b /\ taskResults[a] # taskResults[b]
              /\ TypedField(T) = taskResults[b]
              /\ dispatchLog[Latest(CompletedOfType(T))].name = b

\* The planner calls made: each is announced by one report.
PlannerCalls ==
    Cardinality({i \in 1..Len(progress) : progress[i].msg = "Creating orchestration plan"})

\* C35 -- Planning failure: when the planner call has thrown, the run has
\* returned with the error "Failed to create orchestration plan"; no worker
\* and no synthesis was invoked, the result store is as it was, and the
\* planner was called once, retries enabled or not.
C35_PlanningFailure ==
    IsErr(PlanMsg)
    => /\ pc = "done"
       /\ error.tasks = <<>>
       /\ \A n \in TaskNames : invoked[n] = 0
       /\ dispatchLog = <<>>
       /\ synthCalls = 0 /\ synthesis = Undefined
       /\ taskResults = EmptyMap
       /\ PlannerCalls = 1

\* The planner threw in a run with retries enabled.
C35_Witness ==
    /\ IsErr(PlanMsg) /\ enableRetries
    /\ pc = "done" /\ PlannerCalls = 1
    /\ progress[Len(progress)].stage = "error"

C37_HasGetAgreement ==
    \A key \in CacheKeys : CacheHas(key) <=> CacheGet(key) # Null

\* C38 (TraceProcessor concurrency cap): whatever start() and stop() calls,
\* timer firings and message completions have happened, at most one polling
\* chain is active, currentlyProcessing lies between 0 and
\* maxConcurrentProcessing, and it is 0 whenever no received message is
\* still being processed.
PollingChains == timers + Len(receiving)
BeingProcessed == inProcess.simulateProcessing + inProcess.deleteMessage
                  + inProcess.deleteWithoutTraceId
C38_ConcurrencyCap ==
    /\ PollingChains <= 1
    /\ currentlyProcessing >= 0
    /\ currentlyProcessing <= maxConcurrentProcessing
    /\ (BeingProcessed = 0 => currentlyProcessing = 0)

====
